---- MODULE Spec2Model ----
(***************************************************************************)
(* A model of the AI voice detection service: the audio preprocessor and   *)
(* feature extraction engine (app/audio_processor.py), the heuristic and   *)
(* the ensemble classifier (app/classifier.py) and the /detect handler     *)
(* (app_main.py).                                                          *)
(*                                                                         *)
(* Numbers are fixed point.  Feature values are in hundredths (FeatOne),   *)
(* the heuristic score in ten-thousandths (HOne), sub-model probabilities  *)
(* in thousandths (ProbaOne), ensemble weights in sixtieths (WeightOne, so *)
(* that 1/1, 1/2 and 1/3 are exact), the ensemble score in units of        *)
(* 1/(WeightOne*ProbaOne), a confidence in thousandths (three decimals).   *)
(* A feature vector is a sequence of entries [name, val]: val is what the  *)
(* code stores, name records which statistic the extractor put there.      *)
(* Offset i of the code (0-based) is element i+1 of the sequence.          *)
(***************************************************************************)
EXTENDS Integers, Sequences, FiniteSets, TLC

VARIABLES
    model_dir,   \* contents of the model directory (settings.model_path)
    classifier,  \* app_main.classifier: the classifier built at startup
    pc,          \* position of the /detect handler
    request,     \* the request being served
    audio,       \* the sample buffer held by the handler
    duration,    \* the duration returned by preprocess, in samples (duration * sr)
    features,    \* the feature vector held by the handler
    stages,      \* the pipeline steps run for the current request, in order
    response,    \* the response of the last request
    call,        \* the last call of classifier.predict: arguments and outcome
    rate_limiter, \* auth.rate_limiter.requests: the timestamps stored for each key
    current_time, \* time.time(), in ticks
    accepted     \* history: for each key, the times within the last hour at
                 \* which check_rate_limit returned True

vars == <<model_dir, classifier, pc, request, audio, duration, features, stages,
          response, call, rate_limiter, current_time, accepted>>

\* RateLimiter.__init__, auth.py lines 27-32: no key has a record
limiter_init == rate_limiter = <<>> /\ current_time = 0 /\ accepted = <<>>

\* a step that neither calls the rate limiter nor lets time pass
limiter_idle == UNCHANGED <<rate_limiter, current_time, accepted>>

----------------------------------------------------------------------------
(* Fixed-point units *)

FeatOne == 100
HOne == 10000
ProbaOne == 1000
WeightOne == 60
ScoreOne == WeightOne * ProbaOne
ConfOne == 1000

Max(a, b) == IF a >= b THEN a ELSE b
Min(a, b) == IF a <= b THEN a ELSE b
Abs(a) == IF a >= 0 THEN a ELSE 0 - a

RECURSIVE SeqSum(_)
SeqSum(s) == IF s = <<>> THEN 0 ELSE Head(s) + SeqSum(Tail(s))

RECURSIVE SetSum(_, _)
\* the sum of g[x] over the elements x of S
SetSum(S, g) ==
    IF S = {} THEN 0
    ELSE LET x == CHOOSE y \in S : TRUE IN g[x] + SetSum(S \ {x}, g)

Vals(f) == [i \in 1..Len(f) |-> f[i].val]
Squares(s) == [i \in 1..Len(s) |-> s[i] * s[i]]
Fill(name, v, n) == [i \in 1..n |-> [name |-> name, val |-> v]]
Tag(name, s) == [i \in 1..Len(s) |-> [name |-> name, val |-> s[i]]]

\* np.std(s) < t for a non-empty sequence s of hundredths (population std-dev):
\* var < t^2  <=>  n*sum(x^2) - sum(x)^2 < t^2 * n^2, in hundredths squared
np_std_below(s, t) ==
    LET n == Len(s)
    IN n * SeqSum(Squares(s)) - SeqSum(s) * SeqSum(s) < t * t * n * n * FeatOne * FeatOne

\* round(x, 3) of a value x given in units of 1/one: the nearest thousandth,
\* a tie going to the even one
round3(x, one) ==
    LET q == x * ConfOne
        lo == q \div one
        rem == q % one
    IN IF 2 * rem > one THEN lo + 1
       ELSE IF 2 * rem < one THEN lo
       ELSE IF lo % 2 = 0 THEN lo ELSE lo + 1

----------------------------------------------------------------------------
(* app/audio_processor.py: AudioProcessor *)

target_sr == 22050
min_duration == 1
max_duration == 60

N_MFCC == 40
N_CHROMA == 12
FeatureCount == 127

\* The librosa analysis of a buffer, as far as the classifiers read it: the
\* forty MFCC std-devs, pitch std, jitter, shimmer, HNR, onset mean and std.
\* The other statistics are 0.00 in every analysis of the model (pitch mean
\* and range too, where the analysis is not computed from pitch frames).
MfccStdPatterns ==
    { [i \in 1..N_MFCC |-> 100],
      [i \in 1..N_MFCC |-> IF i % 2 = 0 THEN 400 ELSE 0],
      [i \in 1..N_MFCC |-> IF i % 2 = 0 THEN 398 ELSE 0] }

Analyses ==
    [ mfcc_std : MfccStdPatterns,
      pitch_mean : {0},
      pitch_std : {0, 3000, 10001},
      pitch_range : {0},
      jitter : {1, 2, 6},
      shimmer : {2, 3},
      hnr : {1500, 1501},
      onset_mean : {49, 50},
      onset_std : {49, 50} ]

extract_mfcc_features(a) ==
    Fill("mfcc_mean", 0, N_MFCC) \o Tag("mfcc_std", a.mfcc_std)

extract_spectral_features(a) ==
    << [name |-> "centroid_mean", val |-> 0], [name |-> "centroid_std", val |-> 0],
       [name |-> "rolloff_mean", val |-> 0], [name |-> "rolloff_std", val |-> 0],
       [name |-> "bandwidth_mean", val |-> 0], [name |-> "bandwidth_std", val |-> 0],
       [name |-> "contrast_mean", val |-> 0], [name |-> "contrast_std", val |-> 0],
       [name |-> "flatness_mean", val |-> 0], [name |-> "flatness_std", val |-> 0] >>

extract_prosodic_features(a) ==
    << [name |-> "pitch_mean", val |-> a.pitch_mean],
       [name |-> "pitch_std", val |-> a.pitch_std],
       [name |-> "pitch_range", val |-> a.pitch_range], [name |-> "energy_mean", val |-> 0],
       [name |-> "energy_std", val |-> 0], [name |-> "zcr_mean", val |-> 0] >>

extract_voice_quality_features(a) ==
    << [name |-> "jitter", val |-> a.jitter], [name |-> "shimmer", val |-> a.shimmer],
       [name |-> "hnr", val |-> a.hnr] >>

extract_temporal_features(a) ==
    << [name |-> "silence_ratio", val |-> 0], [name |-> "avg_pause", val |-> 0],
       [name |-> "onset_mean", val |-> a.onset_mean],
       [name |-> "onset_std", val |-> a.onset_std] >>

extract_chroma_features(a) ==
    Fill("chroma_mean", 0, N_CHROMA) \o Fill("chroma_std", 0, N_CHROMA)

\* (mutant) the temporal block appended before the voice quality block
extract_all_features_temporal_first(a) ==
    extract_mfcc_features(a) \o extract_spectral_features(a)
        \o extract_prosodic_features(a) \o extract_temporal_features(a)
        \o extract_voice_quality_features(a) \o extract_chroma_features(a)

extract_all_features(a) ==
    extract_mfcc_features(a) \o extract_spectral_features(a)
        \o extract_prosodic_features(a) \o extract_voice_quality_features(a)
        \o extract_temporal_features(a) \o extract_chroma_features(a)

----------------------------------------------------------------------------
(* app/classifier.py: MockVoiceClassifier *)

PitchStdIdx == 91
MfccStdLo == 40
MfccStdHi == 80
JitterIdx == 96
ShimmerIdx == 97
HnrIdx == 98
OnsetIdx == 101

\* (mutant) the entry before the one meant
feature_or_zero_off_by_one(f, i) == IF Len(f) > i THEN f[i].val ELSE 0

\* features[i] if len(features) > i else 0
feature_or_zero(f, i) == IF Len(f) > i THEN f[i + 1].val ELSE 0

\* lines 45-84: the accumulated adjustments, added to 0.5 and clamped to [0, 1]
mock_base_score(f) ==
    LET pitch_std == feature_or_zero(f, PitchStdIdx)
        s1 == IF pitch_std < 30 * FeatOne THEN 2500
              ELSE IF pitch_std > 100 * FeatOne THEN 0 - 1000 ELSE 0
        s2 == IF Len(f) >= MfccStdHi
              THEN IF np_std_below(Vals(SubSeq(f, MfccStdLo + 1, MfccStdHi)), 2)
                   THEN 2000 ELSE 0
              ELSE 0
        jitter == feature_or_zero(f, JitterIdx)
        s3 == IF jitter < 2 THEN 1500 ELSE IF jitter > 5 THEN 0 - 1000 ELSE 0
        shimmer == feature_or_zero(f, ShimmerIdx)
        s4 == IF shimmer < 3 THEN 1500 ELSE 0
        hnr == feature_or_zero(f, HnrIdx)
        s5 == IF hnr > 15 * FeatOne THEN 1500 ELSE 0
        onset_std == feature_or_zero(f, OnsetIdx)
        s6 == IF onset_std * 2 < FeatOne THEN 1000 ELSE 0
    IN Max(0, Min(HOne, 5000 + s1 + s2 + s3 + s4 + s5 + s6))

\* (mutant) a noise of amplitude 0.3
random_uniform_wide == {0 - 3000, 0, 3000}

\* random.uniform(-0.1, 0.1): the values of the range the model draws
random_uniform == {0 - 1000, 0 - 4, 0, 4, 1000}

\* lines 86-89: the noise added, the sum clamped to [0.05, 0.95]
mock_final_score(f, noise) == Max(500, Min(9500, mock_base_score(f) + noise))

\* (mutant) is_ai = score >= 0.5
is_ai_at_least(score, one) == 2 * score >= one

\* lines 92-94 and 183-185: is_ai = score > 0.5, for a score in units of 1/one
is_ai(score, one) == 2 * score > one

prediction_of(score, one) == IF is_ai(score, one) THEN "AI_GENERATED" ELSE "HUMAN"

\* confidence = score if is_ai else (1 - score), then round(confidence, 3)
confidence_of(score, one) ==
    round3(IF is_ai(score, one) THEN score ELSE one - score, one)

Languages == {"english", "tamil"}

\* The record of one predict call: its arguments, what it did and its outcome.
\* nth is 1 for the first call made on the classifier and 2 for a later one;
\* proba holds what each sub-model that answered returned.
NoCall ==
    [ kind |-> "none", nth |-> 0, features |-> <<>>, language |-> "", raised |-> FALSE,
      error |-> "", queried |-> {}, failed |-> {}, proba |-> <<>>, noise |-> 0,
      base |-> 0, score |-> 0, one |-> 1, prediction |-> "", confidence |-> 0,
      log |-> <<>> ]

\* (mutant) a heuristic that raises the score of one language
MockPredict_language_prior(f, language, noise) ==
    LET score == Min(9500, mock_final_score(f, noise)
                             + (IF language = "tamil" THEN 3000 ELSE 0))
    IN [ NoCall EXCEPT
           !.kind = "mock", !.features = f, !.language = language,
           !.noise = noise, !.base = mock_base_score(f), !.score = score, !.one = HOne,
           !.prediction = prediction_of(score, HOne),
           !.confidence = confidence_of(score, HOne) ]

\* MockVoiceClassifier.predict(features, language), the random draw being noise
MockPredict(f, language, noise) ==
    [ NoCall EXCEPT
        !.kind = "mock", !.features = f, !.language = language,
        !.noise = noise, !.base = mock_base_score(f),
        !.score = mock_final_score(f, noise), !.one = HOne,
        !.prediction = prediction_of(mock_final_score(f, noise), HOne),
        !.confidence = confidence_of(mock_final_score(f, noise), HOne) ]

----------------------------------------------------------------------------
(* app/classifier.py: EnsembleVoiceClassifier *)

model_names == {"random_forest", "gradient_boosting", "svm"}

\* line 119: the order of the list, which is the order of self.models
model_order == <<"random_forest", "gradient_boosting", "svm">>

\* The feature count train_model.py's extract_features produces (80 MFCC, 24
\* chroma, 6 spectral, 2 pitch, 2 energy, 2 zcr, hnr, silence ratio): what an
\* artifact fitted by that script expects.
TrainFeatureCount == 118

Opt(S) == {<<>>} \cup {<<x>> : x \in S}

\* A fitted sub-model: it expects n_features_in features and answers the
\* probability p_below or p_above by the scaled pitch-std entry (a stump).
SubModel(n, below, above) ==
    [n_features_in |-> n, pivot |-> 1, p_below |-> below, p_above |-> above]

Artifacts(name) ==
    CASE name = "random_forest" ->
            {SubModel(FeatureCount, 1000, 0), SubModel(TrainFeatureCount, 1000, 0)}
      [] name = "gradient_boosting" ->
            {SubModel(FeatureCount, 500, 501), SubModel(TrainFeatureCount, 500, 501)}
      [] name = "svm" ->
            {SubModel(FeatureCount, 800, 300), SubModel(TrainFeatureCount, 800, 300)}

\* A fitted StandardScaler with the same mean and scale for every feature
ScalerArtifacts ==
    { [n_features_in |-> FeatureCount, mean |-> 3000, scale |-> 200],
      [n_features_in |-> TrainFeatureCount, mean |-> 3000, scale |-> 200] }

\* weights.json as train_model.py saves it: normalized over the three names
WeightFiles ==
    { [n \in model_names |->
         CASE n = "random_forest" -> 30 [] n = "gradient_boosting" -> 18 [] n = "svm" -> 12] }

\* A model directory: path is settings.model_path, corrupt the files of it
\* whose load raises.  ModelDirs are the directories whose files all load.
ModelDirs ==
    [ path : {"models"},
      random_forest : Opt(Artifacts("random_forest")),
      gradient_boosting : Opt(Artifacts("gradient_boosting")),
      svm : Opt(Artifacts("svm")),
      scaler : Opt(ScalerArtifacts),
      weights : Opt(WeightFiles),
      corrupt : {{}} ]

EmptyDir ==
    [ path |-> "models", random_forest |-> <<>>, gradient_boosting |-> <<>>,
      svm |-> <<>>, scaler |-> <<>>, weights |-> <<>>, corrupt |-> {} ]

\* get_classifier(None): no directory given
UnsetDir == [EmptyDir EXCEPT !.path = ""]

file_names == model_names \cup {"scaler", "weights"}

file(dir, name) ==
    CASE name = "random_forest" -> dir.random_forest
      [] name = "gradient_boosting" -> dir.gradient_boosting
      [] name = "svm" -> dir.svm
      [] name = "scaler" -> dir.scaler
      [] name = "weights" -> dir.weights

\* path.exists()
exists(dir, name) == file(dir, name) # <<>>

\* The directories a deployment may hold: at most one file of it is corrupt
LoadDirs ==
    ModelDirs
        \cup {[x[1] EXCEPT !.corrupt = {x[2]}] :
                 x \in {y \in ModelDirs \X file_names : exists(y[1], y[2])}}
        \cup {UnsetDir}

NoClassifier ==
    [ kind |-> "None", is_mock |-> TRUE, model_version |-> "",
      models |-> <<>>, scaler |-> <<>>, weights |-> <<>> ]

MockVoiceClassifier ==
    [ NoClassifier EXCEPT !.kind = "MockVoiceClassifier", !.model_version = "1.0.0-mock" ]

\* _load_models, lines 119-141: the fields it sets from the directory
loaded_models(dir) ==
    LET present == {n \in model_names : file(dir, n) # <<>>}
    IN [n \in present |-> file(dir, n)[1]]

loaded_weights(dir) ==
    IF dir.weights # <<>> THEN dir.weights[1]
    ELSE LET present == DOMAIN loaded_models(dir)
         IN [n \in present |-> WeightOne \div Cardinality(present)]

\* _load_models, lines 117-148: the error it raises, "" when it returns.  The
\* sub-models are loaded first, then the scaler, then the weights; "No models
\* found" is raised last.
load_error(dir) ==
    IF \E n \in model_names : exists(dir, n) /\ n \in dir.corrupt THEN "joblib.load"
    ELSE IF exists(dir, "scaler") /\ "scaler" \in dir.corrupt THEN "joblib.load"
    ELSE IF exists(dir, "weights") /\ "weights" \in dir.corrupt THEN "json.load"
    ELSE IF DOMAIN loaded_models(dir) = {} THEN "No models found"
    ELSE ""

\* (mutant) the check for no sub-model skipped when a scaler was loaded
load_raises_unless_scaler(dir) ==
    load_error(dir) # "" /\ ~(load_error(dir) = "No models found" /\ exists(dir, "scaler"))

load_raises(dir) == load_error(dir) # ""

\* EnsembleVoiceClassifier(model_dir), when _load_models does not raise
EnsembleVoiceClassifier(dir) ==
    [ kind |-> "EnsembleVoiceClassifier", is_mock |-> FALSE, model_version |-> "1.0.0",
      models |-> loaded_models(dir), scaler |-> dir.scaler,
      weights |-> loaded_weights(dir) ]

\* sklearn's transform and predict_proba raise on a vector of another width
transform_ok(s, X) == Len(X) = s.n_features_in

transform(s, X) ==
    [i \in 1..Len(X) |->
        [name |-> X[i].name, val |-> ((X[i].val - s.mean) * FeatOne) \div s.scale]]

proba_ok(m, X) == Len(X) = m.n_features_in

predict_proba(m, X) ==
    IF X[PitchStdIdx + 1].val < m.pivot THEN m.p_below ELSE m.p_above

\* self.weights.get(name, 0)
weights_get(w, name) == IF name \in DOMAIN w THEN w[name] ELSE 0

\* lines 155-162: the vector the sub-models are given
scaled_features(c, f) == IF c.scaler # <<>> THEN transform(c.scaler[1], f) ELSE f

\* lines 164-171: the sub-models whose predict_proba returned
predictions_of(c, X) == {n \in DOMAIN c.models : proba_ok(c.models[n], X)}

\* (mutant) a sub-model whose query failed is queried once more
query_log_retrying(c, X) ==
    LET loaded(n) == n \in DOMAIN c.models
        failed(n) == n \in DOMAIN c.models /\ ~proba_ok(c.models[n], X)
    IN SelectSeq(model_order, loaded) \o SelectSeq(model_order, failed)

\* lines 164-171: the predict_proba calls made, in order: one for each loaded
\* sub-model
query_log(c, X) ==
    LET loaded(n) == n \in DOMAIN c.models
    IN SelectSeq(model_order, loaded)

\* (mutant) raise as soon as one sub-model failed
predict_raises_if_any_failed(c, predictions) == predictions # DOMAIN c.models

\* lines 173-174: if not predictions: raise RuntimeError
predict_raises(c, predictions) == predictions = {}

\* lines 177-180: the weighted sum over the predictions made
ensemble_score(c, X, predictions) ==
    SetSum(predictions,
           [n \in predictions |-> weights_get(c.weights, n) * predict_proba(c.models[n], X)])

\* EnsembleVoiceClassifier.predict(features, language)
EnsemblePredict(c, f, language) ==
    LET base == [NoCall EXCEPT !.kind = "ensemble", !.features = f,
                               !.language = language, !.one = ScoreOne]
    IN IF c.scaler # <<>> /\ ~transform_ok(c.scaler[1], f)
       THEN [base EXCEPT !.raised = TRUE, !.error = "scaler.transform"]
       ELSE LET X == scaled_features(c, f)
                predictions == predictions_of(c, X)
                score == ensemble_score(c, X, predictions)
                queried == [base EXCEPT
                              !.queried = DOMAIN c.models,
                              !.log = query_log(c, X),
                              !.failed = DOMAIN c.models \ predictions,
                              !.proba = [n \in predictions |-> predict_proba(c.models[n], X)]]
            IN IF predict_raises(c, predictions)
               THEN [queried EXCEPT !.raised = TRUE, !.error = "All models failed to predict"]
               ELSE [queried EXCEPT !.base = score, !.score = score,
                                    !.prediction = prediction_of(score, ScoreOne),
                                    !.confidence = confidence_of(score, ScoreOne)]

----------------------------------------------------------------------------
(* The values of the handler's variables when it holds nothing *)

NoAnalysis == CHOOSE a \in Analyses : TRUE

NoRequest ==
    [ kind |-> "none", n |-> 0, lead |-> 0, trail |-> 0, analysis |-> NoAnalysis,
      language |-> "" ]

NoAudio == [n |-> 0, held |-> FALSE]

NoResponse ==
    [ status |-> 0, detail |-> "", prediction |-> "", confidence |-> 0,
      language |-> "", audio_duration_seconds |-> 0, model_version |-> "",
      model_loaded |-> FALSE ]

----------------------------------------------------------------------------
(* app/audio_processor.py: the pitch and energy statistics of the prosodic   *)
(* and the voice quality extractor, computed from the frames librosa gives.  *)
(* A frame of piptrack is a sequence of bins [pitch, mag], pitch in Hz; a    *)
(* bin that is no peak has pitch 0 and mag 0.  rms is a sequence of frame    *)
(* energies in thousandths.                                                  *)

RECURSIVE isqrt_between(_, _, _)
isqrt_between(x, lo, hi) ==
    IF lo = hi THEN lo
    ELSE LET mid == (lo + hi + 1) \div 2
         IN IF mid * mid <= x THEN isqrt_between(x, mid, hi)
            ELSE isqrt_between(x, lo, mid - 1)

\* magnitudes[:, t].argmax(): the first bin of the largest magnitude
argmax(frame) ==
    CHOOSE i \in 1..Len(frame) :
        /\ \A j \in 1..Len(frame) : frame[j].mag <= frame[i].mag
        /\ \A j \in 1..(i - 1) : frame[j].mag < frame[i].mag

\* (mutant) the bin of the highest pitch
argmax_pitch(frame) ==
    CHOOSE i \in 1..Len(frame) :
        /\ \A j \in 1..Len(frame) : frame[j].pitch <= frame[i].pitch
        /\ \A j \in 1..(i - 1) : frame[j].pitch < frame[i].pitch

Positive(p) == p > 0

\* lines 147-152: the pitch of the dominant bin of every frame, kept if > 0
prosodic_pitch_values(frames) ==
    SelectSeq([t \in 1..Len(frames) |-> frames[t][argmax(frames[t])].pitch], Positive)

\* (mutant) the loop of the voice quality extractor taking the highest pitch
quality_pitch_values_highest(frames) ==
    SelectSeq([t \in 1..Len(frames) |-> frames[t][argmax_pitch(frames[t])].pitch], Positive)

\* lines 180-185: the same loop in the voice quality extractor
quality_pitch_values(frames) ==
    SelectSeq([t \in 1..Len(frames) |-> frames[t][argmax(frames[t])].pitch], Positive)

\* np.mean, np.std and np.ptp of a non-empty sequence of integers, in hundredths
np_mean(s) == (SeqSum(s) * FeatOne) \div Len(s)
np_std(s) ==
    LET n == Len(s)
        v == ((n * SeqSum(Squares(s)) - SeqSum(s) * SeqSum(s)) * FeatOne * FeatOne)
                \div (n * n)
    IN isqrt_between(v, 0, 40000)
np_ptp(s) ==
    LET S == {s[i] : i \in 1..Len(s)}
    IN ((CHOOSE x \in S : \A y \in S : y <= x)
          - (CHOOSE x \in S : \A y \in S : x <= y)) * FeatOne

\* np.mean(np.abs(np.diff(s)) / (s[:-1] + 1e-10)) of a sequence of at least two
\* positive integers, in hundredths (1e-10 is far below the unit)
mean_relative_diff(s) ==
    LET n == Len(s) - 1
        q == [i \in 1..n |-> (Abs(s[i + 1] - s[i]) * FeatOne * 100) \div s[i]]
    IN (SeqSum(q) \div n) \div 100

\* lines 187-191: jitter
jitter_of(pitch_values) ==
    IF Len(pitch_values) > 1 THEN mean_relative_diff(pitch_values) ELSE 0

\* lines 194-198: shimmer
shimmer_of(rms) == IF Len(rms) > 1 THEN mean_relative_diff(rms) ELSE 0

\* _extract_prosodic_features, lines 144-159: the pitch statistics
pitch_analysis(a, frames) ==
    LET pitch_values == prosodic_pitch_values(frames)
    IN IF pitch_values # <<>>
       THEN [a EXCEPT !.pitch_mean = np_mean(pitch_values),
                      !.pitch_std = np_std(pitch_values),
                      !.pitch_range = np_ptp(pitch_values)]
       ELSE [a EXCEPT !.pitch_mean = 0, !.pitch_std = 0, !.pitch_range = 0]

\* _extract_voice_quality_features, lines 179-198: jitter and shimmer
quality_analysis(a, frames, rms) ==
    [a EXCEPT !.jitter = jitter_of(quality_pitch_values(frames)),
              !.shimmer = shimmer_of(rms)]

Unvoiced == [pitch |-> 0, mag |-> 0]
Peak(pitch, mag) == [pitch |-> pitch, mag |-> mag]

\* The frames drawn: no peak; the second bin dominant; two bins of the same
\* magnitude; one peak
Frames ==
    { <<Unvoiced, Unvoiced>>, <<Peak(200, 1), Peak(204, 2)>>,
      <<Peak(204, 2), Peak(300, 2)>>, <<Peak(300, 2), Unvoiced>> }

MaxFrames == 3

SeqsUpTo(S, n) == UNION {[1..k -> S] : k \in 1..n}

InitFrames ==
    /\ model_dir = EmptyDir
    /\ classifier = NoClassifier
    /\ pc = "prosodic"
    /\ request = [NoRequest EXCEPT !.kind = "frames"]
    /\ audio \in [frames : SeqsUpTo(Frames, MaxFrames), rms : SeqsUpTo({100, 102, 150}, MaxFrames)]
    /\ duration = 0
    /\ features = <<>>
    /\ stages = <<>>
    /\ response = NoResponse
    /\ call = [kind |-> "frames", prosodic |-> <<>>, quality |-> <<>>]
    /\ limiter_init

\* _extract_prosodic_features(audio, sr)
frames_prosodic ==
    /\ pc = "prosodic"
    /\ LET a == pitch_analysis(request.analysis, audio.frames)
       IN /\ request' = [request EXCEPT !.analysis = a]
          /\ features' = features \o extract_prosodic_features(a)
    /\ call' = [call EXCEPT !.prosodic = prosodic_pitch_values(audio.frames)]
    /\ stages' = Append(stages, "prosodic")
    /\ pc' = "voice_quality"
    /\ UNCHANGED <<model_dir, classifier, audio, duration, response>>
    /\ limiter_idle

\* _extract_voice_quality_features(audio, sr)
frames_voice_quality ==
    /\ pc = "voice_quality"
    /\ LET a == quality_analysis(request.analysis, audio.frames, audio.rms)
       IN /\ request' = [request EXCEPT !.analysis = a]
          /\ features' = features \o extract_voice_quality_features(a)
    /\ call' = [call EXCEPT !.quality = quality_pitch_values(audio.frames)]
    /\ stages' = Append(stages, "voice_quality")
    /\ pc' = "extracted"
    /\ UNCHANGED <<model_dir, classifier, audio, duration, response>>
    /\ limiter_idle

NextFrames == frames_prosodic \/ frames_voice_quality

SpecFrames == InitFrames /\ [][NextFrames]_vars

----------------------------------------------------------------------------
(* The classifiers called directly, as tests/test_api.py calls them: any     *)
(* constructed classifier, any vector (also shorter ones), any language.     *)

ShortLens == {0, 40, 80, 92, 97, 99, 102, 118}

ShortBases ==
    {a \in Analyses : /\ a.onset_std = 50 /\ a.onset_mean = 50 /\ a.hnr = 1500
                      /\ a.shimmer = 3 /\ a.jitter = 2 /\ a.pitch_std # 0
                      /\ a.mfcc_std[2] # 398}

PredictInputs ==
    {extract_all_features(a) : a \in {b \in Analyses : b.onset_std = 50}}
        \cup {SubSeq(extract_all_features(a), 1, n) : a \in ShortBases, n \in ShortLens}

InitPredict ==
    /\ \/ /\ model_dir = EmptyDir
          /\ classifier = MockVoiceClassifier
       \/ /\ model_dir \in ModelDirs
          /\ ~load_raises(model_dir)
          /\ classifier = EnsembleVoiceClassifier(model_dir)
    /\ pc = "unit"
    /\ \E language \in Languages :
          request = [NoRequest EXCEPT !.kind = "predict", !.language = language]
    /\ audio = NoAudio
    /\ duration = 0
    /\ features \in PredictInputs
    /\ stages = <<>>
    /\ response = NoResponse
    /\ call = NoCall
    /\ limiter_init

\* classifier.predict(features, language) on the heuristic classifier
PredictMock ==
    /\ pc = "unit"
    /\ classifier.kind = "MockVoiceClassifier"
    /\ \E noise \in random_uniform :
          call' = [MockPredict(features, request.language, noise)
                      EXCEPT !.nth = Min(call.nth + 1, 2)]
    /\ UNCHANGED <<model_dir, classifier, pc, request, audio, duration, features,
                   stages, response>>
    /\ limiter_idle

\* classifier.predict(features, language) on the ensemble classifier
PredictEnsemble ==
    /\ pc = "unit"
    /\ classifier.kind = "EnsembleVoiceClassifier"
    /\ call' = [EnsemblePredict(classifier, features, request.language)
                   EXCEPT !.nth = Min(call.nth + 1, 2)]
    /\ UNCHANGED <<model_dir, classifier, pc, request, audio, duration, features,
                   stages, response>>
    /\ limiter_idle

NextPredict == PredictMock \/ PredictEnsemble

SpecPredict == InitPredict /\ [][NextPredict]_vars

----------------------------------------------------------------------------
(* app/classifier.py: get_classifier, and app_main.py: lifespan *)

\* lines 195-206: the ensemble when random_forest.pkl and scaler.pkl exist and
\* the construction does not raise, the mock classifier otherwise
\* (mutant) every sub-model file required
get_classifier_all_required(dir) ==
    IF /\ dir.path # ""
       /\ \A n \in model_names \cup {"scaler"} : exists(dir, n)
       /\ ~load_raises(dir)
    THEN EnsembleVoiceClassifier(dir)
    ELSE MockVoiceClassifier

get_classifier(dir) ==
    IF /\ dir.path # ""
       /\ exists(dir, "random_forest") /\ exists(dir, "scaler")
       /\ ~load_raises(dir)
    THEN EnsembleVoiceClassifier(dir)
    ELSE MockVoiceClassifier

\* (mutant) model_loaded = classifier is not None
model_loaded_if_any(c) == c.kind # "None"

\* app_main.py, health_check, line 173: model_loaded
model_loaded(c) == c.kind # "None" /\ ~c.is_mock

----------------------------------------------------------------------------
(* app/audio_processor.py: AudioProcessor.preprocess *)

\* (mutant) no upper limit on the duration
preprocess_no_max_duration(clip) ==
    LET r == [ok |-> FALSE, error |-> "", detail |-> "", steps |-> <<"load">>,
              n |-> 0, duration |-> 0]
    IN IF clip.kind = "undecodable"
       THEN [r EXCEPT !.error = "Exception", !.detail = "Could not process audio"]
       ELSE IF clip.n < min_duration * target_sr
       THEN [r EXCEPT !.error = "ValueError", !.detail = "Audio too short",
                      !.steps = <<"load", "get_duration">>]
       ELSE [r EXCEPT !.ok = TRUE,
                      !.steps = <<"load", "get_duration", "normalize", "trim">>,
                      !.n = clip.n - clip.lead - clip.trail,
                      !.duration = clip.n]

\* (mutant) the duration taken after the trim, and so not validated
preprocess_duration_after_trim(clip) ==
    LET r == [ok |-> FALSE, error |-> "", detail |-> "", steps |-> <<"load">>,
              n |-> 0, duration |-> 0]
    IN IF clip.kind = "undecodable"
       THEN [r EXCEPT !.error = "Exception", !.detail = "Could not process audio"]
       ELSE IF clip.n < min_duration * target_sr
       THEN [r EXCEPT !.error = "ValueError", !.detail = "Audio too short",
                      !.steps = <<"load", "get_duration">>]
       ELSE IF clip.n > max_duration * target_sr
       THEN [r EXCEPT !.error = "ValueError", !.detail = "Audio too long",
                      !.steps = <<"load", "get_duration">>]
       ELSE [r EXCEPT !.ok = TRUE,
                      !.steps = <<"load", "get_duration", "normalize", "trim">>,
                      !.n = clip.n - clip.lead - clip.trail,
                      !.duration = clip.n - clip.lead - clip.trail]

\* lines 36-57.  A clip decodes to n samples of which trim removes lead at the
\* start and trail at the end; steps lists the librosa calls made, in order.
preprocess(clip) ==
    LET r == [ok |-> FALSE, error |-> "", detail |-> "", steps |-> <<"load">>,
              n |-> 0, duration |-> 0]
    IN IF clip.kind = "undecodable"
       THEN [r EXCEPT !.error = "Exception", !.detail = "Could not process audio"]
       ELSE IF clip.n < min_duration * target_sr
       THEN [r EXCEPT !.error = "ValueError", !.detail = "Audio too short",
                      !.steps = <<"load", "get_duration">>]
       ELSE IF clip.n > max_duration * target_sr
       THEN [r EXCEPT !.error = "ValueError", !.detail = "Audio too long",
                      !.steps = <<"load", "get_duration">>]
       ELSE [r EXCEPT !.ok = TRUE,
                      !.steps = <<"load", "get_duration", "normalize", "trim">>,
                      !.n = clip.n - clip.lead - clip.trail,
                      !.duration = clip.n]

\* round(duration, 2) of a duration given in samples: hundredths of a second
round2_seconds(samples) ==
    LET q == samples * 100
        lo == q \div target_sr
        rem == q % target_sr
    IN IF 2 * rem > target_sr THEN lo + 1
       ELSE IF 2 * rem < target_sr THEN lo
       ELSE IF lo % 2 = 0 THEN lo ELSE lo + 1

----------------------------------------------------------------------------
(* app/auth.py: RateLimiter.  Time is counted in ticks of half a minute; the *)
(* limits and the hour are scaled down, keeping their order: per minute <    *)
(* per hour < per minute * minutes in the hour (60 < 1000 < 3600).           *)

\* settings.api_keys, config.py line 26: a deployment with two keys
api_keys == {"demo_key_12345", "partner_key"}

\* the windows of check_rate_limit, lines 56 and 61 (60 and 3600 seconds)
minute == 2
hour == 3 * minute

\* settings.rate_limit_per_minute and settings.rate_limit_per_hour
rate_limit_per_minute == 2
rate_limit_per_hour == 3

\* self.requests[api_key] of a defaultdict(list)
records(requests, api_key) ==
    IF api_key \in DOMAIN requests THEN requests[api_key] ELSE <<>>

\* the entries of a list newer than the cutoff: [ts for ts in ... if ts > cutoff]
newer(list, cutoff) ==
    LET keep(ts) == ts > cutoff IN SelectSeq(list, keep)

\* _cleanup_old_requests(api_key, window_seconds), lines 34-44: the stored
\* list of the key is replaced by its entries newer than the cutoff
cleanup_old_requests(requests, api_key, window_seconds, now) ==
    [k \in DOMAIN requests \cup {api_key} |->
        IF k = api_key THEN newer(records(requests, k), now - window_seconds)
        ELSE requests[k]]

\* (mutant) the per-minute test lets one more request through
check_rate_limit_one_more(requests, api_key, now) ==
    LET m == cleanup_old_requests(requests, api_key, minute, now)
        h == cleanup_old_requests(m, api_key, hour, now)
    IN IF Len(m[api_key]) > rate_limit_per_minute
       THEN [is_allowed |-> FALSE, error_message |-> "per minute", requests |-> m]
       ELSE IF Len(h[api_key]) >= rate_limit_per_hour
       THEN [is_allowed |-> FALSE, error_message |-> "per hour", requests |-> h]
       ELSE [is_allowed |-> TRUE, error_message |-> "",
             requests |-> [h EXCEPT ![api_key] = Append(@, now)]]

\* (mutant) a rejected request is recorded as well
check_rate_limit_recording_all(requests, api_key, now) ==
    LET m == cleanup_old_requests(requests, api_key, minute, now)
        h == cleanup_old_requests(m, api_key, hour, now)
    IN IF Len(m[api_key]) >= rate_limit_per_minute
       THEN [is_allowed |-> FALSE, error_message |-> "per minute",
             requests |-> [m EXCEPT ![api_key] = Append(@, now)]]
       ELSE IF Len(h[api_key]) >= rate_limit_per_hour
       THEN [is_allowed |-> FALSE, error_message |-> "per hour", requests |-> h]
       ELSE [is_allowed |-> TRUE, error_message |-> "",
             requests |-> [h EXCEPT ![api_key] = Append(@, now)]]

\* (mutant) one list for all keys: the requests of every key are counted
check_rate_limit_shared(requests, api_key, now) ==
    LET m == cleanup_old_requests(requests, api_key, minute, now)
        h == cleanup_old_requests(m, api_key, hour, now)
        all == SetSum(DOMAIN m, [k \in DOMAIN m |-> Len(newer(m[k], now - minute))])
    IN IF all >= rate_limit_per_minute
       THEN [is_allowed |-> FALSE, error_message |-> "per minute", requests |-> m]
       ELSE IF Len(h[api_key]) >= rate_limit_per_hour
       THEN [is_allowed |-> FALSE, error_message |-> "per hour", requests |-> h]
       ELSE [is_allowed |-> TRUE, error_message |-> "",
             requests |-> [h EXCEPT ![api_key] = Append(@, now)]]

\* check_rate_limit(api_key), lines 46-68: what it returns and what it leaves
\* in self.requests
check_rate_limit(requests, api_key, now) ==
    LET m == cleanup_old_requests(requests, api_key, minute, now)
        h == cleanup_old_requests(m, api_key, hour, now)
    IN IF Len(m[api_key]) >= rate_limit_per_minute
       THEN [is_allowed |-> FALSE, error_message |-> "per minute", requests |-> m]
       ELSE IF Len(h[api_key]) >= rate_limit_per_hour
       THEN [is_allowed |-> FALSE, error_message |-> "per hour", requests |-> h]
       ELSE [is_allowed |-> TRUE, error_message |-> "",
             requests |-> [h EXCEPT ![api_key] = Append(@, now)]]

\* get_remaining(api_key), lines 70-83
get_remaining(requests, api_key, now) ==
    LET h == cleanup_old_requests(requests, api_key, hour, now)
    IN [ remaining_per_minute |->
            Max(0, rate_limit_per_minute - Len(newer(h[api_key], now - minute))),
         remaining_per_hour |-> Max(0, rate_limit_per_hour - Len(h[api_key])),
         requests |-> h ]

\* the record of the last call made on the rate limiter
NoLimiterCall ==
    [ kind |-> "none", api_key |-> "", is_allowed |-> FALSE, error_message |-> "",
      remaining_per_minute |-> 0, remaining_per_hour |-> 0 ]

MaxTime == 6

InitLimiter ==
    /\ model_dir = EmptyDir
    /\ classifier = NoClassifier
    /\ pc = "limiter"
    /\ request = NoRequest
    /\ audio = NoAudio
    /\ duration = 0
    /\ features = <<>>
    /\ stages = <<>>
    /\ response = NoResponse
    /\ call = NoLimiterCall
    /\ limiter_init

\* time passes between two requests
clock_tick ==
    /\ pc = "limiter"
    /\ current_time < MaxTime
    /\ current_time' = current_time + 1
    /\ UNCHANGED <<model_dir, classifier, pc, request, audio, duration, features,
                   stages, response, call, rate_limiter, accepted>>

\* rate_limiter.check_rate_limit(api_key)
call_check_rate_limit ==
    /\ pc = "limiter"
    /\ \E api_key \in api_keys :
          LET r == check_rate_limit(rate_limiter, api_key, current_time)
          IN /\ rate_limiter' = r.requests
             /\ accepted' =
                   IF r.is_allowed
                   THEN [k \in DOMAIN accepted \cup {api_key} |->
                            IF k = api_key
                            THEN Append(newer(records(accepted, k), current_time - hour),
                                        current_time)
                            ELSE accepted[k]]
                   ELSE accepted
             /\ call' = [NoLimiterCall EXCEPT !.kind = "check_rate_limit",
                            !.api_key = api_key, !.is_allowed = r.is_allowed,
                            !.error_message = r.error_message]
    /\ UNCHANGED <<model_dir, classifier, pc, request, audio, duration, features,
                   stages, response, current_time>>

\* rate_limiter.get_remaining(api_key)
call_get_remaining ==
    /\ pc = "limiter"
    /\ \E api_key \in api_keys :
          LET r == get_remaining(rate_limiter, api_key, current_time)
          IN /\ rate_limiter' = r.requests
             /\ call' = [NoLimiterCall EXCEPT !.kind = "get_remaining",
                            !.api_key = api_key,
                            !.remaining_per_minute = r.remaining_per_minute,
                            !.remaining_per_hour = r.remaining_per_hour]
    /\ UNCHANGED <<model_dir, classifier, pc, request, audio, duration, features,
                   stages, response, current_time, accepted>>

NextLimiter == clock_tick \/ call_check_rate_limit \/ call_get_remaining

SpecLimiter == InitLimiter /\ [][NextLimiter]_vars

----------------------------------------------------------------------------
(* app/auth.py: verify_api_key *)

\* what verify_api_key leaves in the rate limiter and how it ends: status 0
\* when it returns the key
Verdict(status, detail, requests, is_allowed) ==
    [status |-> status, detail |-> detail, requests |-> requests, is_allowed |-> is_allowed]

\* (mutant) no test of the key against settings.api_keys
verify_api_key_any_key(api_key, requests, now) ==
    IF api_key = ""
    THEN Verdict(401, "API key required. Include X-API-Key header.", requests, FALSE)
    ELSE LET c == check_rate_limit(requests, api_key, now)
         IN IF ~c.is_allowed
            THEN Verdict(429, c.error_message,
                         get_remaining(c.requests, api_key, now).requests, FALSE)
            ELSE Verdict(0, "", c.requests, TRUE)

\* (mutant) the rate limiter consulted before the key is tested
verify_api_key_limit_first(api_key, requests, now) ==
    IF api_key = ""
    THEN Verdict(401, "API key required. Include X-API-Key header.", requests, FALSE)
    ELSE LET c == check_rate_limit(requests, api_key, now)
         IN IF api_key \notin api_keys
            THEN Verdict(403, "Invalid API key", c.requests, FALSE)
            ELSE IF ~c.is_allowed
            THEN Verdict(429, c.error_message,
                         get_remaining(c.requests, api_key, now).requests, FALSE)
            ELSE Verdict(0, "", c.requests, TRUE)

\* verify_api_key, auth.py lines 90-134
verify_api_key(api_key, requests, now) ==
    IF api_key = ""
    THEN Verdict(401, "API key required. Include X-API-Key header.", requests, FALSE)
    ELSE IF api_key \notin api_keys
    THEN Verdict(403, "Invalid API key", requests, FALSE)
    ELSE LET c == check_rate_limit(requests, api_key, now)
         IN IF ~c.is_allowed
            THEN Verdict(429, c.error_message,
                         get_remaining(c.requests, api_key, now).requests, FALSE)
            ELSE Verdict(0, "", c.requests, TRUE)

\* the X-API-Key headers sent: none, an unknown key, the configured keys
SentKeys == {"", "invalid_key"} \cup api_keys

\* the history of accepted requests after a call for the key
record_accepted(history, api_key, is_allowed, now) ==
    IF is_allowed
    THEN [k \in DOMAIN history \cup {api_key} |->
             IF k = api_key THEN Append(newer(records(history, k), now - hour), now)
             ELSE history[k]]
    ELSE history

----------------------------------------------------------------------------
(* app_main.py: the application *)

\* librosa's default analysis frame: a buffer shorter than one frame is where
\* an extractor may raise
N_FFT == 2048

ClipAnalyses ==
    {a \in Analyses : /\ a.mfcc_std[2] = 400 /\ a.jitter = 6 /\ a.shimmer = 3
                      /\ a.hnr = 1500 /\ a.onset_std = 50 /\ a.pitch_std # 3000}

SampleCounts ==
    { target_sr \div 2, target_sr - 1, target_sr, 2 * target_sr,
      max_duration * target_sr, max_duration * target_sr + 1, 90 * target_sr }

Trims(n) == {<<0, 0>>, <<512, 1024>>, <<n - 50, 0>>}

Clips ==
    { [NoRequest EXCEPT !.kind = "undecodable"], [NoRequest EXCEPT !.kind = "oversize"],
      [NoRequest EXCEPT !.kind = "invalid_base64"] }
    \cup { [NoRequest EXCEPT !.kind = "audio", !.n = n, !.lead = t[1], !.trail = t[2],
                             !.analysis = a] :
             n \in SampleCounts, t \in Trims(target_sr), a \in ClipAnalyses }

Requests == {[c EXCEPT !.language = l] : c \in Clips, l \in Languages}

HTTPError(status, detail) == [NoResponse EXCEPT !.status = status, !.detail = detail]

\* (mutant) no "except HTTPException: raise" before "except Exception"
outer_handler_catching_all(exc) == HTTPError(500, "An unexpected error occurred")

\* detect_voice, lines 295-302: an HTTPException raised by a step passes through
\* unchanged, any other exception becomes a 500
outer_handler(exc) ==
    IF exc.status # 0 THEN exc ELSE HTTPError(500, "An unexpected error occurred")

Init ==
    /\ model_dir \in ModelDirs
    /\ classifier = NoClassifier
    /\ pc = "startup"
    /\ request = NoRequest
    /\ audio = NoAudio
    /\ duration = 0
    /\ features = <<>>
    /\ stages = <<>>
    /\ response = NoResponse
    /\ call = NoCall
    /\ limiter_init

\* lifespan, lines 47-65: the classifier is built at startup
lifespan ==
    /\ pc = "startup"
    /\ classifier' = get_classifier(model_dir)
    /\ pc' = "idle"
    /\ UNCHANGED <<model_dir, request, audio, duration, features, stages, response, call>>
    /\ limiter_idle

\* (mutant) /health behind the dependency on verify_api_key
health_check_authenticated ==
    /\ pc = "idle"
    /\ \E k \in SentKeys :
          LET auth == verify_api_key(k, rate_limiter, current_time)
          IN /\ rate_limiter' = auth.requests
             /\ accepted' = record_accepted(accepted, k, auth.is_allowed, current_time)
             /\ response' =
                   IF auth.status # 0 THEN HTTPError(auth.status, auth.detail)
                   ELSE [NoResponse EXCEPT !.status = 200, !.detail = "healthy",
                                           !.model_loaded = model_loaded(classifier)]
    /\ UNCHANGED <<model_dir, classifier, pc, request, audio, duration, features,
                   stages, call, current_time>>

\* health_check, lines 162-174
health_check ==
    /\ pc = "idle"
    /\ response' = [NoResponse EXCEPT !.status = 200, !.detail = "healthy",
                                      !.model_loaded = model_loaded(classifier)]
    /\ UNCHANGED <<model_dir, classifier, pc, request, audio, duration, features,
                   stages, call>>
    /\ limiter_idle

\* detect_voice, lines 221-239: a validated request arrives; its size is checked
detect_voice ==
    /\ pc = "idle"
    /\ \E r \in Requests :
          /\ request' = r
          /\ IF r.kind = "invalid_base64"
             THEN /\ response' = outer_handler(HTTPError(400, "Invalid base64 encoding"))
                  /\ pc' = "done"
             ELSE IF r.kind = "oversize"
             THEN /\ response' = outer_handler(HTTPError(400, "File too large"))
                  /\ pc' = "done"
             ELSE /\ response' = NoResponse
                  /\ pc' = "preprocess"
    /\ audio' = NoAudio
    /\ duration' = 0
    /\ features' = <<>>
    /\ stages' = <<>>
    /\ call' = NoCall
    /\ UNCHANGED <<model_dir, classifier>>
    /\ limiter_idle

\* detect_voice, lines 241-251: audio_processor.preprocess(audio_bytes)
detect_preprocess ==
    /\ pc = "preprocess"
    /\ LET r == preprocess(request)
       IN /\ stages' = stages \o r.steps
          /\ IF r.ok
             THEN /\ audio' = [n |-> r.n, held |-> TRUE]
                  /\ duration' = r.duration
                  /\ pc' = "extract"
                  /\ UNCHANGED response
             ELSE /\ response' = outer_handler(HTTPError(400, r.detail))
                  /\ pc' = "done"
                  /\ UNCHANGED <<audio, duration>>
    /\ UNCHANGED <<model_dir, classifier, request, features, call>>
    /\ limiter_idle

\* (mutant) an extraction error is logged and the handler goes on, with no
\* features
detect_extract_swallowing ==
    /\ pc = "extract"
    /\ stages' = Append(stages, "extract")
    /\ \/ /\ features' = extract_all_features(request.analysis)
          /\ pc' = "classify"
          /\ UNCHANGED response
       \/ /\ audio.n < N_FFT
          /\ pc' = "classify"
          /\ UNCHANGED <<features, response>>
    /\ UNCHANGED <<model_dir, classifier, request, audio, duration, call>>
    /\ limiter_idle

\* detect_voice, lines 253-261: audio_processor.extract_all_features(audio, sr)
detect_extract ==
    /\ pc = "extract"
    /\ stages' = Append(stages, "extract")
    /\ \/ /\ features' = extract_all_features(request.analysis)
          /\ pc' = "classify"
          /\ UNCHANGED response
       \/ /\ audio.n < N_FFT
          /\ response' = outer_handler(HTTPError(500, "Error extracting audio features"))
          /\ pc' = "done"
          /\ UNCHANGED features
    /\ UNCHANGED <<model_dir, classifier, request, audio, duration, call>>
    /\ limiter_idle

\* (mutant) predict drops the sub-models whose query failed from self.models
detect_classify_dropping_failed ==
    /\ pc = "classify"
    /\ stages' = Append(stages, "classify")
    /\ \E noise \in (IF classifier.is_mock THEN random_uniform ELSE {0}) :
          call' = [(IF classifier.is_mock
                    THEN MockPredict(features, request.language, noise)
                    ELSE EnsemblePredict(classifier, features, request.language))
                      EXCEPT !.nth = 1]
    /\ response' =
          IF call'.raised
          THEN outer_handler(HTTPError(500, "Error during classification"))
          ELSE [ status |-> 200, detail |-> "", prediction |-> call'.prediction,
                 confidence |-> call'.confidence, language |-> request.language,
                 audio_duration_seconds |-> round2_seconds(duration),
                 model_version |-> classifier.model_version,
                 model_loaded |-> FALSE ]
    /\ pc' = "done"
    /\ classifier' = IF classifier.is_mock THEN classifier
                     ELSE [classifier EXCEPT !.models =
                             [n \in call'.queried \ call'.failed |-> classifier.models[n]]]
    /\ UNCHANGED <<model_dir, request, audio, duration, features>>
    /\ limiter_idle

\* detect_voice, lines 263-293: classifier.predict(features, request.language)
\* and the response built from its result
detect_classify ==
    /\ pc = "classify"
    /\ stages' = Append(stages, "classify")
    /\ \E noise \in (IF classifier.is_mock THEN random_uniform ELSE {0}) :
          call' = [(IF classifier.is_mock
                    THEN MockPredict(features, request.language, noise)
                    ELSE EnsemblePredict(classifier, features, request.language))
                      EXCEPT !.nth = 1]
    /\ response' =
          IF call'.raised
          THEN outer_handler(HTTPError(500, "Error during classification"))
          ELSE [ status |-> 200, detail |-> "", prediction |-> call'.prediction,
                 confidence |-> call'.confidence, language |-> request.language,
                 audio_duration_seconds |-> round2_seconds(duration),
                 model_version |-> classifier.model_version,
                 model_loaded |-> FALSE ]
    /\ pc' = "done"
    /\ UNCHANGED <<model_dir, classifier, request, audio, duration, features>>
    /\ limiter_idle

\* the handler returns: its locals are gone, the server waits for a request
detect_return ==
    /\ pc = "done"
    /\ pc' = "idle"
    /\ request' = NoRequest
    /\ audio' = NoAudio
    /\ duration' = 0
    /\ features' = <<>>
    /\ stages' = <<>>
    /\ response' = NoResponse
    /\ call' = NoCall
    /\ UNCHANGED <<model_dir, classifier>>
    /\ limiter_idle

----------------------------------------------------------------------------
(* The classifier built at startup from any directory, and the ensemble      *)
(* classifier constructed directly                                           *)

InitLoad ==
    /\ model_dir \in LoadDirs
    /\ classifier = NoClassifier
    /\ pc = "startup"
    /\ request = NoRequest
    /\ audio = NoAudio
    /\ duration = 0
    /\ features = <<>>
    /\ stages = <<>>
    /\ response = NoResponse
    /\ call = NoCall
    /\ limiter_init

\* EnsembleVoiceClassifier(model_dir), classifier.py lines 105-148
construct_ensemble ==
    /\ pc = "startup"
    /\ model_dir.path # ""
    /\ call' = [NoCall EXCEPT !.kind = "construct", !.raised = load_raises(model_dir),
                              !.error = load_error(model_dir)]
    /\ classifier' = IF load_raises(model_dir) THEN classifier
                     ELSE EnsembleVoiceClassifier(model_dir)
    /\ pc' = "constructed"
    /\ UNCHANGED <<model_dir, request, audio, duration, features, stages, response>>
    /\ limiter_idle

NextLoad == construct_ensemble \/ lifespan \/ health_check

SpecLoad == InitLoad /\ [][NextLoad]_vars

----------------------------------------------------------------------------

Next ==
    \/ lifespan
    \/ health_check
    \/ detect_voice
    \/ detect_preprocess
    \/ detect_extract
    \/ detect_classify
    \/ detect_return

Spec == Init /\ [][Next]_vars

----------------------------------------------------------------------------
(* Two /detect requests in flight at once.  Every variable of the handler    *)
(* is a function of the request; model_dir and classifier are the process's. *)
(* The steps of the two handlers interleave freely, which covers the event   *)
(* loop running each handler to its end as well as handlers run in threads.  *)

Reqs == {1, 2}

ConcRequests ==
    {r \in Requests :
        /\ r.language = "english"
        /\ \/ r.kind = "audio" /\ r.n = 2 * target_sr /\ r.trail = 0
           \/ r.kind = "audio" /\ r.n = target_sr \div 2 /\ r.lead = 0 /\ r.trail = 0
                /\ r.analysis.pitch_std = 0 /\ r.analysis.onset_mean = 50}

ConcDirs ==
    {d \in ModelDirs :
        \/ d = EmptyDir
        \/ /\ \A n \in file_names : exists(d, n)
           /\ d.scaler[1].n_features_in = FeatureCount
           /\ d.random_forest[1].n_features_in = FeatureCount
           /\ d.svm[1].n_features_in = FeatureCount}

InitConcurrent ==
    /\ model_dir \in ConcDirs
    /\ classifier = get_classifier(model_dir)
    /\ request \in [Reqs -> ConcRequests]
    /\ pc = [r \in Reqs |-> "preprocess"]
    /\ audio = [r \in Reqs |-> NoAudio]
    /\ duration = [r \in Reqs |-> 0]
    /\ features = [r \in Reqs |-> <<>>]
    /\ stages = [r \in Reqs |-> <<>>]
    /\ response = [r \in Reqs |-> NoResponse]
    /\ call = [r \in Reqs |-> NoCall]
    /\ limiter_init

\* detect_voice of request r, lines 241-251
conc_preprocess(r) ==
    /\ pc[r] = "preprocess"
    /\ LET p == preprocess(request[r])
       IN /\ stages' = [stages EXCEPT ![r] = @ \o p.steps]
          /\ IF p.ok
             THEN /\ audio' = [audio EXCEPT ![r] = [n |-> p.n, held |-> TRUE]]
                  /\ duration' = [duration EXCEPT ![r] = p.duration]
                  /\ pc' = [pc EXCEPT ![r] = "extract"]
                  /\ UNCHANGED response
             ELSE /\ response' = [response EXCEPT ![r] = outer_handler(HTTPError(400, p.detail))]
                  /\ pc' = [pc EXCEPT ![r] = "done"]
                  /\ UNCHANGED <<audio, duration>>
    /\ UNCHANGED <<model_dir, classifier, request, features, call>>
    /\ limiter_idle

\* (mutant) the extracted vector kept in an attribute of the shared
\* audio_processor, from which the classification step takes it
conc_extract_shared_buffer(r) ==
    /\ pc[r] = "extract"
    /\ stages' = [stages EXCEPT ![r] = Append(@, "extract")]
    /\ \/ /\ features' = [q \in Reqs |-> extract_all_features(request[r].analysis)]
          /\ pc' = [pc EXCEPT ![r] = "classify"]
          /\ UNCHANGED response
       \/ /\ audio[r].n < N_FFT
          /\ response' = [response EXCEPT ![r] =
                             outer_handler(HTTPError(500, "Error extracting audio features"))]
          /\ pc' = [pc EXCEPT ![r] = "done"]
          /\ UNCHANGED features
    /\ UNCHANGED <<model_dir, classifier, request, audio, duration, call>>
    /\ limiter_idle

\* detect_voice of request r, lines 253-261
conc_extract(r) ==
    /\ pc[r] = "extract"
    /\ stages' = [stages EXCEPT ![r] = Append(@, "extract")]
    /\ \/ /\ features' = [features EXCEPT ![r] = extract_all_features(request[r].analysis)]
          /\ pc' = [pc EXCEPT ![r] = "classify"]
          /\ UNCHANGED response
       \/ /\ audio[r].n < N_FFT
          /\ response' = [response EXCEPT ![r] =
                             outer_handler(HTTPError(500, "Error extracting audio features"))]
          /\ pc' = [pc EXCEPT ![r] = "done"]
          /\ UNCHANGED features
    /\ UNCHANGED <<model_dir, classifier, request, audio, duration, call>>
    /\ limiter_idle

\* detect_voice of request r, lines 263-293
conc_classify(r) ==
    /\ pc[r] = "classify"
    /\ stages' = [stages EXCEPT ![r] = Append(@, "classify")]
    /\ \E noise \in (IF classifier.is_mock THEN random_uniform ELSE {0}) :
          call' = [call EXCEPT ![r] =
                     [(IF classifier.is_mock
                       THEN MockPredict(features[r], request[r].language, noise)
                       ELSE EnsemblePredict(classifier, features[r], request[r].language))
                         EXCEPT !.nth = 1]]
    /\ response' = [response EXCEPT ![r] =
          IF call'[r].raised
          THEN outer_handler(HTTPError(500, "Error during classification"))
          ELSE [ status |-> 200, detail |-> "", prediction |-> call'[r].prediction,
                 confidence |-> call'[r].confidence, language |-> request[r].language,
                 audio_duration_seconds |-> round2_seconds(duration[r]),
                 model_version |-> classifier.model_version,
                 model_loaded |-> FALSE ]]
    /\ pc' = [pc EXCEPT ![r] = "done"]
    /\ UNCHANGED <<model_dir, classifier, request, audio, duration, features>>
    /\ limiter_idle

NextConcurrent ==
    \E r \in Reqs : conc_preprocess(r) \/ conc_extract(r) \/ conc_classify(r)

SpecConcurrent == InitConcurrent /\ [][NextConcurrent]_vars

----------------------------------------------------------------------------
(* app/audio_processor.py: the silence statistics of the temporal extractor, *)
(* computed from the frame energies.  librosa.effects.split(audio,           *)
(* top_db=30) frames the buffer with hop_length samples per frame (one frame *)
(* more than the whole hops of the buffer), takes each frame's RMS level in  *)
(* decibels relative to the loudest frame of the buffer (ref=np.max), calls  *)
(* a frame non-silent when it is less than top_db below that, and returns    *)
(* the runs of non-silent frames as sample intervals clipped to the buffer.  *)
(* A level is a frame's RMS in dB; amin_db is what a frame of zeros gets.    *)

top_db == 30
hop_length == 512
amin_db == 0 - 100

\* the levels drawn: a frame of zeros, a faint frame, a loud frame
Levels == {amin_db, 0 - 50, 0 - 10}

peak_db(levels) ==
    CHOOSE m \in {levels[t] : t \in 1..Len(levels)} :
        \A t \in 1..Len(levels) : levels[t] <= m

\* db > -top_db, db being relative to the buffer's peak
non_silent(levels) ==
    [t \in 1..Len(levels) |-> Max(levels[t], amin_db) - Max(peak_db(levels), amin_db) > 0 - top_db]

\* the frames at which a run of non-silent frames starts, and where it ends
run_starts(ns) == {t \in 1..Len(ns) : ns[t] /\ (t = 1 \/ ~ns[t - 1])}
run_end(ns, s) == CHOOSE e \in s..Len(ns) :
                      /\ \A t \in s..e : ns[t]
                      /\ e = Len(ns) \/ ~ns[e + 1]

sorted(S) == CHOOSE s \in [1..Cardinality(S) -> S] :
                 \A i, j \in 1..Cardinality(S) : i < j => s[i] < s[j]

\* librosa.effects.split: <<start, end>> in samples, end exclusive
split(n, levels) ==
    LET ns == non_silent(levels)
        starts == sorted(run_starts(ns))
    IN [i \in 1..Len(starts) |->
          <<Min((starts[i] - 1) * hop_length, n), Min(run_end(ns, starts[i]) * hop_length, n)>>]

\* line 220: sum(end - start for start, end in intervals)
speech_duration(intervals) ==
    SeqSum([i \in 1..Len(intervals) |-> intervals[i][2] - intervals[i][1]])

\* lines 219-221 and 230-231: 1 - speech_duration / len(audio), in units of
\* 1/HOne; 1.0 with no interval
silence_ratio(n, intervals) ==
    IF Len(intervals) > 0 THEN HOne - (speech_duration(intervals) * HOne) \div n ELSE HOne

\* lines 225-226: the gaps between consecutive intervals, in samples
pauses(intervals) ==
    [i \in 1..(Len(intervals) - 1) |-> intervals[i + 1][1] - intervals[i][2]]

\* lines 224-232: np.mean(pauses) / sr, in milliseconds
avg_pause(intervals) ==
    IF Len(intervals) > 1
    THEN (SeqSum(pauses(intervals)) * 1000) \div (Len(pauses(intervals)) * target_sr)
    ELSE 0

MaxHops == 4

\* the buffers drawn: up to MaxHops frames, the last hop barely begun or
\* almost whole
InitTemporal ==
    /\ model_dir = EmptyDir
    /\ classifier = NoClassifier
    /\ pc = "temporal"
    /\ request = [NoRequest EXCEPT !.kind = "levels"]
    /\ \E levels \in SeqsUpTo(Levels, MaxHops) :
          \E n \in {(Len(levels) - 1) * hop_length + 1, Len(levels) * hop_length - 1} :
             audio = [n |-> n, levels |-> levels]
    /\ duration = 0
    /\ features = <<>>
    /\ stages = <<>>
    /\ response = NoResponse
    /\ call = [kind |-> "levels", intervals |-> <<>>]
    /\ limiter_init

\* _extract_temporal_features(audio, sr), lines 209-239
frames_temporal ==
    /\ pc = "temporal"
    /\ LET intervals == split(audio.n, audio.levels)
       IN /\ call' = [call EXCEPT !.intervals = intervals]
          /\ features' =
                << [name |-> "silence_ratio", val |-> silence_ratio(audio.n, intervals)],
                   [name |-> "avg_pause", val |-> avg_pause(intervals)],
                   [name |-> "onset_mean", val |-> request.analysis.onset_mean],
                   [name |-> "onset_std", val |-> request.analysis.onset_std] >>
    /\ stages' = Append(stages, "temporal")
    /\ pc' = "extracted"
    /\ UNCHANGED <<model_dir, classifier, request, audio, duration, response>>
    /\ limiter_idle

NextTemporal == frames_temporal

SpecTemporal == InitTemporal /\ [][NextTemporal]_vars

----------------------------------------------------------------------------
(* app/auth.py: verify_api_key; app/models.py: VoiceDetectionRequest; and    *)
(* app_main.py: /detect as the server runs it: the dependency               *)
(* verify_api_key first, then the validation of the body, then the handler.  *)

\* models.py line 22: the languages a request may name
SUPPORTED_LANGUAGES == {"tamil", "english", "hindi", "malayalam", "telugu"}

min_length == 100
min_decoded_bytes == 100
max_file_size_mb == 10

\* A string sent as audio_base64, by its characters: data characters of the
\* base-64 alphabet, '=' characters at its end, and stray characters that are
\* neither (a '!', a blank, a line break).
Encoded(data, pad, stray) == [data |-> data, pad |-> pad, stray |-> stray]

\* len(v)
encoded_len(v) == v.data + v.pad + v.stray

\* base64.b64decode(v): the stray characters are discarded, then the data
\* characters are taken four at a time, three bytes each; a last group of two
\* or three needs its padding and gives one or two bytes, a last group of one
\* raises, as missing padding does.  n is the number of bytes decoded.
b64decode(v) ==
    LET rest == v.data % 4
    IN IF rest # 1 /\ v.pad >= (4 - rest) % 4
       THEN [raised |-> FALSE, n |-> 3 * (v.data \div 4) + Max(rest - 1, 0)]
       ELSE [raised |-> TRUE, n |-> 0]

\* VoiceDetectionRequest, models.py lines 14-37: the error of the first field
\* that fails, "" when the body is valid
validate(h) ==
    IF encoded_len(h.audio_base64) < min_length THEN "String should have at least 100 characters"
    ELSE IF b64decode(h.audio_base64).raised THEN "Invalid base64 encoding"
    ELSE IF b64decode(h.audio_base64).n < min_decoded_bytes
    THEN "Invalid base64 encoding: Audio data too small"
    ELSE IF h.language \notin SUPPORTED_LANGUAGES THEN "Input should be a supported language"
    ELSE ""

\* the 2-second recording of tests/test_api.py lines 47-73 (a 16-bit WAV file
\* of 44100 samples, 88244 bytes) and its encoding
Recording ==
    [ NoRequest EXCEPT !.kind = "audio", !.n = 2 * target_sr,
                       !.analysis = CHOOSE a \in ClipAnalyses : TRUE ]
RecordingEncoded == Encoded(117659, 1, 0)

\* the bodies sent: the recording in every language and in an unsupported
\* one; the recording with a stray character in its encoding, and without
\* its padding; the string of the test of line 153; a string that decodes to
\* 75 bytes; bytes that are no audio; a file above the size limit
HttpBodies ==
    { [Recording EXCEPT !.language = l] @@ [audio_base64 |-> RecordingEncoded] :
         l \in SUPPORTED_LANGUAGES \cup {"french"} }
    \cup { [Recording EXCEPT !.language = "english"] @@ [audio_base64 |-> e] :
             e \in { Encoded(117659, 1, 1), Encoded(117659, 0, 0), Encoded(14, 0, 5),
                     Encoded(100, 0, 0) } }
    \cup { [NoRequest EXCEPT !.kind = "undecodable", !.language = "english"]
              @@ [audio_base64 |-> Encoded(136, 0, 0)],
           [Recording EXCEPT !.language = "english", !.n = 90 * target_sr]
              @@ [audio_base64 |-> Encoded(13981016, 0, 0)] }

HttpRequests == {b @@ [api_key |-> k] : b \in HttpBodies, k \in SentKeys}

\* the model directories of the served application: none, the artifacts of a
\* training on the vector the service extracts, and those train_model.py fits
ApiDirs ==
    {d \in ModelDirs :
        \/ d = EmptyDir
        \/ /\ \A n \in file_names : exists(d, n)
           /\ \E c \in {FeatureCount, TrainFeatureCount} :
                 \A n \in model_names \cup {"scaler"} : file(d, n)[1].n_features_in = c}

MaxServeTime == 2

InitApi ==
    /\ model_dir \in ApiDirs
    /\ classifier = NoClassifier
    /\ pc = "startup"
    /\ request = NoRequest
    /\ audio = NoAudio
    /\ duration = 0
    /\ features = <<>>
    /\ stages = <<>>
    /\ response = NoResponse
    /\ call = NoCall
    /\ limiter_init

\* time passes while the server waits for a request
idle_tick ==
    /\ pc = "idle"
    /\ current_time < MaxServeTime
    /\ current_time' = current_time + 1
    /\ UNCHANGED <<model_dir, classifier, pc, request, audio, duration, features,
                   stages, response, call, rate_limiter, accepted>>

\* POST /detect, app_main.py lines 189-239: the dependency verify_api_key,
\* the validation of the body against VoiceDetectionRequest, then the first
\* steps of the handler, the decoding and the size test
post_detect ==
    /\ pc = "idle"
    /\ \E h \in HttpRequests :
          LET auth == verify_api_key(h.api_key, rate_limiter, current_time)
          IN /\ request' = h
             /\ rate_limiter' = auth.requests
             /\ accepted' = record_accepted(accepted, h.api_key, auth.is_allowed, current_time)
             /\ IF auth.status # 0
                THEN /\ response' = HTTPError(auth.status, auth.detail)
                     /\ pc' = "done"
                ELSE IF validate(h) # ""
                THEN /\ response' = HTTPError(422, validate(h))
                     /\ pc' = "done"
                ELSE IF b64decode(h.audio_base64).raised
                THEN /\ response' = outer_handler(HTTPError(400, "Invalid base64 encoding"))
                     /\ pc' = "done"
                ELSE IF b64decode(h.audio_base64).n > max_file_size_mb * 1024 * 1024
                THEN /\ response' = outer_handler(HTTPError(400, "File too large"))
                     /\ pc' = "done"
                ELSE /\ response' = NoResponse
                     /\ pc' = "preprocess"
    /\ audio' = NoAudio
    /\ duration' = 0
    /\ features' = <<>>
    /\ stages' = <<>>
    /\ call' = NoCall
    /\ UNCHANGED <<model_dir, classifier, current_time>>

NextApi ==
    \/ lifespan
    \/ idle_tick
    \/ health_check
    \/ post_detect
    \/ detect_preprocess
    \/ detect_extract
    \/ detect_classify
    \/ detect_return

SpecApi == InitApi /\ [][NextApi]_vars

----------------------------------------------------------------------------
(* Properties of the classifiers, checked under SpecPredict *)

AILabel == "AI_GENERATED"
HumanLabel == "HUMAN"

Returned(kind) == call.kind = kind /\ ~call.raised
Survivors == call.queried \ call.failed
SurvivorWeight == SetSum(Survivors, [n \in Survivors |-> weights_get(classifier.weights, n)])
SurvivorSum ==
    SetSum(Survivors, [n \in Survivors |-> weights_get(classifier.weights, n) * call.proba[n]])

\* C1: when some but not all sub-models fail at inference time, the fused score
\* is the sum of weight*proba over the surviving sub-models divided by the sum
\* of the survivors' weights (renormalized), not the unnormalized sum.
\* (score = SurvivorSum / SurvivorWeight, cross-multiplied; 1.0 is WeightOne.)
C1_ScoreRenormalizedOverSurvivors ==
    (Returned("ensemble") /\ call.failed # {})
        => call.score * SurvivorWeight = SurvivorSum * WeightOne

ScalerRaises ==
    classifier.scaler # <<>> /\ Len(call.features) # classifier.scaler[1].n_features_in
EveryQueryFailed ==
    call.queried = DOMAIN classifier.models /\ call.failed = DOMAIN classifier.models

\* C2 as stated: predict fails if and only if every loaded sub-model's
\* probability query fails; with at least one success it returns a result.
C2_FailsIffEverySubModelFails ==
    call.kind = "ensemble"
        => /\ call.raised <=> EveryQueryFailed
           /\ Survivors # {} => (~call.raised /\ call.prediction \in {AILabel, HumanLabel})

\* C2 amended: predict fails if and only if the scaler's transform raises or
\* every loaded sub-model's probability query fails; whenever at least one
\* sub-model succeeds it returns a (label, confidence) result.
C2_FailsIffScalerOrEverySubModelFails ==
    call.kind = "ensemble"
        => /\ call.raised <=> (ScalerRaises \/ EveryQueryFailed)
           /\ ScalerRaises => call.queried = {}
           /\ Survivors # {} => (~call.raised /\ call.prediction \in {AILabel, HumanLabel})

C2_Witness ==
    /\ call.kind = "ensemble" /\ call.raised /\ ~ScalerRaises
    /\ Cardinality(call.failed) >= 2

RefAdjustments(f) ==
    (IF f[92].val < 3000 THEN 2500 ELSE 0)
    + (IF f[92].val > 10000 THEN 0 - 1000 ELSE 0)
    + (IF np_std_below([i \in 1..40 |-> f[40 + i].val], 2) THEN 2000 ELSE 0)
    + (IF f[97].val < 2 THEN 1500 ELSE 0)
    + (IF f[97].val > 5 THEN 0 - 1000 ELSE 0)
    + (IF f[98].val < 3 THEN 1500 ELSE 0)
    + (IF f[99].val > 1500 THEN 1500 ELSE 0)
    + (IF f[102].val < 50 THEN 1000 ELSE 0)
RefScore(f) == Max(0, Min(HOne, 5000 + RefAdjustments(f)))

\* C4 as stated: for a vector of the expected length the heuristic result is
\* the reference computation: label = AI_GENERATED if RefScore > 0.5 else HUMAN,
\* confidence = RefScore if AI_GENERATED else 1 - RefScore.
C4_ResultIsReference ==
    (Returned("mock") /\ Len(call.features) = FeatureCount)
        => LET s == RefScore(call.features)
           IN /\ call.prediction = (IF 2 * s > HOne THEN AILabel ELSE HumanLabel)
              /\ call.confidence * (HOne \div ConfOne) =
                    (IF 2 * s > HOne THEN s ELSE HOne - s)

\* C4 amended: the decision score is the reference score plus a random noise in
\* [-0.1, 0.1], clamped to [0.05, 0.95]; label = AI_GENERATED if that score is
\* > 0.5 else HUMAN; confidence = that score if AI_GENERATED else 1 - score,
\* rounded to three decimals.
C4_ResultIsNoisyReference ==
    (Returned("mock") /\ Len(call.features) = FeatureCount)
        => LET s == Max(500, Min(9500, RefScore(call.features) + call.noise))
           IN /\ 0 - 1000 <= call.noise /\ call.noise <= 1000
              /\ call.score = s
              /\ call.prediction = (IF 2 * s > HOne THEN AILabel ELSE HumanLabel)
              /\ call.confidence = round3(IF 2 * s > HOne THEN s ELSE HOne - s, HOne)

C4_Witness ==
    /\ Returned("mock") /\ Len(call.features) = FeatureCount
    /\ call.noise # 0 /\ RefScore(call.features) = 3000
    /\ call.prediction = HumanLabel

SameVectorAgain ==
    /\ call.kind # "none" /\ call'.kind = call.kind
    /\ call'.features = call.features

RuleRemovedAdjustments(f) ==
    (IF Len(f) > 91 /\ f[92].val < 3000 THEN 2500 ELSE 0)
    + (IF Len(f) > 91 /\ f[92].val > 10000 THEN 0 - 1000 ELSE 0)
    + (IF Len(f) > 79 /\ np_std_below([i \in 1..40 |-> f[40 + i].val], 2) THEN 2000 ELSE 0)
    + (IF Len(f) > 96 /\ f[97].val < 2 THEN 1500 ELSE 0)
    + (IF Len(f) > 96 /\ f[97].val > 5 THEN 0 - 1000 ELSE 0)
    + (IF Len(f) > 97 /\ f[98].val < 3 THEN 1500 ELSE 0)
    + (IF Len(f) > 98 /\ f[99].val > 1500 THEN 1500 ELSE 0)
    + (IF Len(f) > 101 /\ f[102].val < 50 THEN 1000 ELSE 0)

\* C6: for a vector shorter than the expected length the heuristic predict
\* does not fail and every rule whose offset lies beyond the end of the vector
\* contributes exactly zero: the result is the one obtained with the rule
\* removed (for the same random draw).
C6_OutOfRangeRuleContributesZero ==
    (call.kind = "mock" /\ Len(call.features) < FeatureCount)
        => LET s == Max(500, Min(9500,
                        Max(0, Min(HOne, 5000 + RuleRemovedAdjustments(call.features)))
                        + call.noise))
           IN /\ ~call.raised
              /\ call.score = s
              /\ call.prediction = (IF 2 * s > HOne THEN AILabel ELSE HumanLabel)

----------------------------------------------------------------------------
(* Claims about the /detect pipeline, checked under Spec *)

NameAt(f, i) == f[i + 1].name

\* C7: in the vector produced by extract_all_features every offset the
\* heuristic classifier reads holds the feature its rule is named for: 91 the
\* pitch std, 40..79 the MFCC std-devs, 96 jitter, 97 shimmer, 98 HNR, and the
\* offset of the onset rule the onset-strength std-dev.
C7_OffsetsHoldNamedFeatures ==
    features # <<>>
        => /\ NameAt(features, PitchStdIdx) = "pitch_std"
           /\ \A i \in MfccStdLo..(MfccStdHi - 1) : NameAt(features, i) = "mfcc_std"
           /\ NameAt(features, JitterIdx) = "jitter"
           /\ NameAt(features, ShimmerIdx) = "shimmer"
           /\ NameAt(features, HnrIdx) = "hnr"
           /\ NameAt(features, OnsetIdx) = "onset_std"

\* The extractor block a feature belongs to
BlockOf(name) ==
    CASE name \in {"mfcc_mean", "mfcc_std"} -> "mfcc"
      [] name \in {"centroid_mean", "centroid_std", "rolloff_mean", "rolloff_std",
                   "bandwidth_mean", "bandwidth_std", "contrast_mean",
                   "contrast_std", "flatness_mean", "flatness_std"} -> "spectral"
      [] name \in {"pitch_mean", "pitch_std", "pitch_range", "energy_mean",
                   "energy_std", "zcr_mean"} -> "prosodic"
      [] name \in {"jitter", "shimmer", "hnr"} -> "voice_quality"
      [] name \in {"silence_ratio", "avg_pause", "onset_mean", "onset_std"} -> "temporal"
      [] name \in {"chroma_mean", "chroma_std"} -> "chroma"
      [] OTHER -> "none"

\* The block the layout assigns to an offset
LayoutBlock(i) ==
    IF i < 80 THEN "mfcc"
    ELSE IF i < 90 THEN "spectral"
    ELSE IF i < 96 THEN "prosodic"
    ELSE IF i < 99 THEN "voice_quality"
    ELSE IF i < 103 THEN "temporal"
    ELSE "chroma"

OutOfBounds ==
    /\ request.kind = "audio"
    /\ \/ request.n < min_duration * target_sr
       \/ request.n > max_duration * target_sr

\* C9: for a request whose decoded duration is below 1.0 s or above 60.0 s,
\* preprocess fails with the duration error before normalization and trimming
\* (the request is answered 400 with it), and neither feature extraction nor
\* classification is invoked.
C9_OutOfBoundsRejectedBeforeTrim ==
    OutOfBounds
        => /\ \A i \in 1..Len(stages) : stages[i] \in {"load", "get_duration"}
           /\ features = <<>> /\ call = NoCall /\ audio = NoAudio
           /\ pc \in {"preprocess", "done"}
           /\ pc = "done"
                 => response = HTTPError(400,
                                  IF request.n < min_duration * target_sr
                                  THEN "Audio too short" ELSE "Audio too long")

C9_Witness ==
    /\ pc = "done" /\ request.kind = "audio"
    /\ request.n > max_duration * target_sr

ExtractionRuns == pc = "extract" \/ (Len(stages) > 0 /\ "extract" \in {stages[i] : i \in 1..Len(stages)})

\* C10 as stated: whenever feature extraction runs, the duration returned by
\* preprocess is the length of the returned samples over the sample rate, and
\* lies between min_duration and max_duration.
C10_DurationIsReturnedLength ==
    ExtractionRuns
        => /\ duration = audio.n
           /\ min_duration * target_sr <= duration
           /\ duration <= max_duration * target_sr

\* C10 amended: whenever feature extraction runs, the duration returned by
\* preprocess is the decoded length before the trim over the sample rate, and
\* lies between min_duration and max_duration; the returned samples are those
\* the trim left, at most that many (trimming changes the samples only).
C10_DurationIsDecodedLength ==
    ExtractionRuns
        => /\ duration = request.n
           /\ audio.n = request.n - request.lead - request.trail
           /\ audio.n <= duration
           /\ min_duration * target_sr <= duration
           /\ duration <= max_duration * target_sr

C10_Witness ==
    /\ ExtractionRuns /\ "extract" \in {stages[i] : i \in 1..Len(stages)}
    /\ audio.n < min_duration * target_sr

----------------------------------------------------------------------------
(* Claims about the construction of the classifier, checked under SpecLoad *)

IsEnsemble == classifier.kind = "EnsembleVoiceClassifier"
IsMock == classifier.kind = "MockVoiceClassifier"
Loads(n) == exists(model_dir, n) /\ n \notin model_dir.corrupt

\* C11 as stated: get_classifier returns the ensemble classifier if and only
\* if the scaler and all three sub-model artifacts are present and load; if the
\* scaler or any sub-model is absent it returns the heuristic classifier.
C11_EnsembleIffAllArtifacts ==
    pc = "idle"
        => /\ IsEnsemble <=> \A n \in model_names \cup {"scaler"} : Loads(n)
           /\ (\E n \in model_names \cup {"scaler"} : ~exists(model_dir, n)) => IsMock

\* C11 amended: get_classifier returns the ensemble classifier if and only if
\* a directory is given, random_forest and the scaler are present and every
\* file present (sub-models, scaler, weights) loads; the ensemble then holds
\* the sub-models present; otherwise it returns the heuristic classifier.
C11_EnsembleIffRandomForestAndScaler ==
    pc = "idle"
        => /\ IsEnsemble <=> /\ model_dir.path # ""
                             /\ Loads("random_forest") /\ Loads("scaler")
                             /\ model_dir.corrupt = {}
           /\ IsEnsemble => DOMAIN classifier.models = {n \in model_names : exists(model_dir, n)}
           /\ ~IsEnsemble => IsMock

C11_Witness ==
    /\ pc = "idle" /\ IsEnsemble
    /\ ~exists(model_dir, "gradient_boosting") /\ ~exists(model_dir, "svm")

\* C12: get_classifier always returns a classifier: with no directory, with
\* the scaler missing or when the construction raises it is the heuristic one,
\* whose is_mock flag is true; /health reports model_loaded = true exactly when
\* the ensemble was loaded.
C12_FallbackIsObservable ==
    pc = "idle"
        => /\ IsEnsemble \/ IsMock
           /\ (\/ model_dir.path = "" \/ ~exists(model_dir, "scaler")
               \/ model_dir.corrupt # {}) => IsMock
           /\ classifier.is_mock <=> IsMock
           /\ response.detail = "healthy" => (response.model_loaded <=> IsEnsemble)

C12_Witness ==
    /\ pc = "idle" /\ response.detail = "healthy" /\ ~response.model_loaded
    /\ exists(model_dir, "random_forest") /\ exists(model_dir, "scaler")
    /\ model_dir.corrupt # {}

Constructed == call.kind = "construct" /\ ~call.raised

\* C13: after every successful construction of the ensemble classifier the
\* weights of the loaded sub-models are non-negative and sum to 1.0, read from
\* the weights file or defaulted to 1/N.
C13_LoadedWeightsSumToOne ==
    Constructed
        => /\ \A n \in DOMAIN classifier.models : weights_get(classifier.weights, n) >= 0
           /\ SetSum(DOMAIN classifier.models,
                     [n \in DOMAIN classifier.models |-> weights_get(classifier.weights, n)])
                 = WeightOne

\* C14: the construction of the ensemble classifier fails whenever no
\* sub-model file is found, whether or not the scaler and the weights file are
\* present; a constructed ensemble classifier holds at least one sub-model.
C14_NoSubModelNoEnsemble ==
    /\ (call.kind = "construct" /\ \A n \in model_names : ~exists(model_dir, n))
          => /\ call.raised /\ classifier = NoClassifier
             /\ model_dir.corrupt = {} => call.error = "No models found"
    /\ IsEnsemble => DOMAIN classifier.models # {}

C14_Witness ==
    /\ call.kind = "construct" /\ call.raised /\ call.error = "No models found"
    /\ exists(model_dir, "scaler") /\ exists(model_dir, "weights")

----------------------------------------------------------------------------
(* Claims about the /detect handler, checked under Spec *)

StageOrder == <<"load", "get_duration", "normalize", "trim", "extract", "classify">>
IsPrefix(s, t) == Len(s) <= Len(t) /\ s = SubSeq(t, 1, Len(s))
Ran(stage) == \E i \in 1..Len(stages) : stages[i] = stage
SuccessResponse == response.status = 200 /\ response.detail = ""

\* C15: the stages of a /detect request run in the order preprocess, extract,
\* classify, each only after the previous one succeeded, and a success response
\* with (prediction, confidence) is returned only when all three completed
\* without error.
C15_StagesInOrder ==
    /\ IsPrefix(stages, StageOrder)
    /\ Ran("extract") => (audio.held /\ preprocess(request).ok)
    /\ Ran("classify") => Len(features) = FeatureCount
    /\ SuccessResponse
          => /\ stages = StageOrder
             /\ call.kind # "none" /\ ~call.raised /\ call.features = features
             /\ response.prediction = call.prediction
             /\ response.prediction \in {AILabel, HumanLabel}
             /\ response.confidence = call.confidence

C15_Witness ==
    /\ pc = "done" /\ SuccessResponse
    /\ call.kind = "ensemble" /\ call.failed # {}

ExtractionFailed == pc = "done" /\ Ran("extract") /\ features = <<>>

\* C16: an undecodable input and an out-of-bounds duration are answered 400
\* (the latter with the duration message), a failure of the feature extraction
\* and a failure of the classification are answered 500, each with the detail
\* of its own stage: the outer handler re-labels none of them.
C16_FailuresReportedByKind ==
    pc = "done"
        => /\ request.kind = "undecodable"
                 => response = HTTPError(400, "Could not process audio")
           /\ OutOfBounds
                 => /\ response.status = 400
                    /\ response.detail \in {"Audio too short", "Audio too long"}
           /\ ExtractionFailed
                 => response = HTTPError(500, "Error extracting audio features")
           /\ call.raised
                 => response = HTTPError(500, "Error during classification")
           /\ response.detail # "An unexpected error occurred"

C16_Witness == ExtractionFailed /\ response.status = 500

\* C17: the classifier is built once, at startup, and is read-only afterwards:
\* every step of a request, predict calls that fail partially or totally
\* included, leaves it (sub-models, scaler, weights) as startup built it.
C17_ClassifierReadOnly ==
    /\ [](pc # "startup" => classifier = get_classifier(model_dir))
    /\ [][pc # "startup" => (classifier' = classifier /\ model_dir' = model_dir)]_vars

C17_Witness ==
    /\ pc = "done" /\ call.kind = "ensemble" /\ call.raised
    /\ call.error = "All models failed to predict"
    /\ classifier = get_classifier(model_dir)

NoRepeat(s) == \A i, j \in 1..Len(s) : s[i] = s[j] => i = j

\* C19: within one predict call every loaded sub-model is queried once, a
\* failed one is not queried again; no stage of a request is run twice, and a
\* request whose preprocess failed or whose sub-models all failed ends with an
\* error.
C19_NoRetries ==
    /\ NoRepeat(stages)
    /\ call.kind = "ensemble"
          => /\ NoRepeat(call.log)
             /\ {call.log[i] : i \in 1..Len(call.log)} = call.queried
    /\ (pc = "done" /\ request.kind \in {"audio", "undecodable"}
           /\ (~preprocess(request).ok \/ call.raised))
          => /\ response.status \in {400, 500}
             /\ call.raised => stages = StageOrder
             /\ ~preprocess(request).ok => Len(stages) <= 2

C19_Witness ==
    /\ pc = "done" /\ call.kind = "ensemble" /\ call.raised
    /\ Len(call.log) = 3 /\ call.failed = model_names

----------------------------------------------------------------------------
(* Claims about requests in flight at once, checked under SpecConcurrent *)

Answered(r) == pc[r] = "done" /\ response[r].status = 200

\* C18 as stated: under every interleaving the (label, confidence) produced
\* for a request is the result that request produces when run alone: the
\* result is a function of the request, so that two requests with the same
\* input get the same answer.
C18_ResultAsWhenRunAlone ==
    \A r, q \in Reqs :
        (Answered(r) /\ Answered(q) /\ request[r] = request[q])
            => /\ response[r].prediction = response[q].prediction
               /\ response[r].confidence = response[q].confidence

\* What request r holds when it runs alone
AloneFeatures(r) == extract_all_features(request[r].analysis)
AloneEnsembleCall(r) ==
    [EnsemblePredict(classifier, AloneFeatures(r), request[r].language) EXCEPT !.nth = 1]

OwnResult(r) ==
    /\ features[r] \in {<<>>, AloneFeatures(r)}
    /\ call[r].kind # "none"
          => /\ call[r].features = AloneFeatures(r)
             /\ call[r].kind = "ensemble" => call[r] = AloneEnsembleCall(r)
             /\ call[r].kind = "mock"
                   => /\ call[r].base = mock_base_score(AloneFeatures(r))
                      /\ call[r].noise \in random_uniform
                      /\ call[r].score =
                            Max(500, Min(9500, call[r].base + call[r].noise))
    /\ Answered(r)
          => /\ response[r].prediction = call[r].prediction
             /\ response[r].confidence = call[r].confidence

StepOf(r) == pc'[r] # pc[r]
Untouched(r) ==
    /\ request'[r] = request[r] /\ audio'[r] = audio[r] /\ duration'[r] = duration[r]
    /\ features'[r] = features[r] /\ stages'[r] = stages[r]
    /\ response'[r] = response[r] /\ call'[r] = call[r]

\* C18 amended: under every interleaving a step of one request changes
\* nothing another request holds, nor the classifier; the vector classified
\* for a request is the one extracted from its own audio; the ensemble's
\* (label, confidence) is the result the request produces when run alone, the
\* heuristic's is computed from the request's own pre-noise score and the
\* random draw of its own predict call.
C18_NoInterferenceUpToNoise ==
    /\ [](\A r \in Reqs : OwnResult(r))
    /\ [][/\ classifier' = classifier
          /\ \A r \in Reqs : ~StepOf(r) => Untouched(r)]_vars

C18_Witness ==
    /\ \A r \in Reqs : Answered(r)
    /\ request[1] # request[2]
    /\ call[1].kind = "ensemble" /\ call[1].failed # {}
    /\ response[1].prediction # response[2].prediction

----------------------------------------------------------------------------
(* Claims about the pitch and energy statistics, checked under SpecFrames *)

\* The pitch estimate of the maximum-magnitude bin of a frame
DominantPitch(frame) ==
    LET top == CHOOSE m \in {frame[i].mag : i \in 1..Len(frame)} :
                   \A i \in 1..Len(frame) : frame[i].mag <= m
        first == CHOOSE i \in 1..Len(frame) :
                     frame[i].mag = top /\ \A j \in 1..(i - 1) : frame[j].mag # top
    IN frame[first].pitch

VoicedFrames == {t \in 1..Len(audio.frames) : DominantPitch(audio.frames[t]) > 0}

EntryOf(name) == CHOOSE i \in 1..Len(features) : features[i].name = name

\* C20: the voiced frames are the frames whose maximum-magnitude pitch
\* estimate is positive, and both extractors select them; with no voiced frame
\* pitch mean, std and range are 0.0, with fewer than two voiced frames jitter
\* is 0.0, with fewer than two energy frames shimmer is 0.0.
C20_VoicedFrameDefaults ==
    pc = "extracted"
        => /\ call.prosodic =
                 SelectSeq([t \in 1..Len(audio.frames) |-> DominantPitch(audio.frames[t])],
                           Positive)
           /\ Len(call.prosodic) = Cardinality(VoicedFrames)
           /\ call.quality = call.prosodic
           /\ VoicedFrames = {}
                 <=> features[EntryOf("pitch_mean")].val = 0
           /\ VoicedFrames = {}
                 => /\ features[EntryOf("pitch_std")].val = 0
                    /\ features[EntryOf("pitch_range")].val = 0
           /\ Cardinality(VoicedFrames) < 2 => features[EntryOf("jitter")].val = 0
           /\ Len(audio.rms) < 2 => features[EntryOf("shimmer")].val = 0

C20_Witness ==
    /\ pc = "extracted" /\ Cardinality(VoicedFrames) = 1
    /\ Len(audio.frames) = 3 /\ Len(audio.rms) = 1
    /\ features[EntryOf("pitch_mean")].val > 0

----------------------------------------------------------------------------
(* Claims about the silence statistics, checked under SpecTemporal *)

\* every sample of the buffer is zero
AllSilent == \A t \in 1..Len(audio.levels) : audio.levels[t] = amin_db

\* C21: the silence ratio is 1 - speech length / sample count and lies in
\* [0, 1]; the average pause is the mean gap between consecutive speech
\* intervals in seconds, 0.0 with fewer than two intervals; with no speech
\* interval, as for an all-silent buffer, the silence ratio is 1.0 and the
\* average pause 0.0.
C21_SilenceRatioAndPause ==
    pc = "extracted"
        => /\ features[EntryOf("silence_ratio")].val \in 0..HOne
           /\ Len(call.intervals) > 0
                 => features[EntryOf("silence_ratio")].val
                       = HOne - (speech_duration(call.intervals) * HOne) \div audio.n
           /\ Len(call.intervals) < 2 => features[EntryOf("avg_pause")].val = 0
           /\ (Len(call.intervals) = 0 \/ AllSilent)
                 => /\ features[EntryOf("silence_ratio")].val = HOne
                    /\ features[EntryOf("avg_pause")].val = 0

----------------------------------------------------------------------------
(* Claims about the rate limiter, checked under SpecLimiter *)

\* the number of requests of a key accepted within the preceding window
AcceptedWithin(api_key, window) ==
    Len(newer(records(accepted, api_key), current_time - window))

\* C22: for every key and at every instant, the number of requests accepted
\* for the key within the preceding hour never exceeds the per-hour limit.
C22_HourlyLimitHolds ==
    \A k \in api_keys : AcceptedWithin(k, hour) <= rate_limit_per_hour

\* a step that is a call of check_rate_limit for the key
Checks(api_key) ==
    /\ call'.kind = "check_rate_limit" /\ call'.api_key = api_key
    /\ current_time' = current_time

\* C23: for every key and at every instant, the number of requests accepted
\* for the key within the preceding minute never exceeds the per-minute limit,
\* and a request arriving when fewer than that were accepted within the
\* preceding minute, the hourly limit not being reached, is accepted.
C23_MinuteLimitHolds ==
    /\ [](\A k \in api_keys : AcceptedWithin(k, minute) <= rate_limit_per_minute)
    /\ [][\A k \in api_keys :
             (/\ Checks(k)
              /\ AcceptedWithin(k, minute) < rate_limit_per_minute
              /\ AcceptedWithin(k, hour) < rate_limit_per_hour) => call'.is_allowed]_vars

C23_Witness ==
    /\ call.kind = "check_rate_limit" /\ ~call.is_allowed
    /\ AcceptedWithin(call.api_key, minute) = rate_limit_per_minute
    /\ Len(records(accepted, call.api_key)) > rate_limit_per_minute

\* C27: a call of check_rate_limit that returns not-allowed leaves the key's
\* stored timestamps as they were but for the entries older than the minute
\* window, which it removes, and counts for nothing; an accepted call appends
\* exactly one timestamp, the current time, to the key's list.
C27_RejectedCallRecordsNothing ==
    [][\A k \in api_keys :
          Checks(k) =>
             LET kept == newer(records(rate_limiter, k), current_time - minute)
             IN IF call'.is_allowed
                THEN /\ records(rate_limiter', k) = Append(kept, current_time)
                     /\ AcceptedWithin(k, hour)' = AcceptedWithin(k, hour) + 1
                ELSE /\ records(rate_limiter', k) = kept
                     /\ accepted' = accepted]_vars

C27_Witness ==
    /\ call.kind = "check_rate_limit" /\ ~call.is_allowed
    /\ Len(records(rate_limiter, call.api_key)) = rate_limit_per_minute
    /\ \E i \in 1..Len(records(accepted, call.api_key)) :
          records(accepted, call.api_key)[i] <= current_time - minute

\* a step that is a call of the rate limiter for the key
CallsLimiter(api_key) ==
    /\ call'.kind \in {"check_rate_limit", "get_remaining"} /\ call'.api_key = api_key
    /\ current_time' = current_time

\* the rate limiter holding the record of one key only
Alone(api_key) == [k \in DOMAIN rate_limiter \cap {api_key} |-> rate_limiter[k]]

\* C28: a call of check_rate_limit or get_remaining for a key leaves the
\* record of every other key as it was, and what it answers is what it would
\* answer had no other key ever made a request.
C28_KeysAreIsolated ==
    [][\A k \in api_keys :
          CallsLimiter(k) =>
             /\ \A j \in api_keys \ {k} :
                   /\ (j \in DOMAIN rate_limiter') = (j \in DOMAIN rate_limiter)
                   /\ records(rate_limiter', j) = records(rate_limiter, j)
                   /\ records(accepted', j) = records(accepted, j)
             /\ call'.kind = "check_rate_limit"
                   => call'.is_allowed
                         = check_rate_limit(Alone(k), k, current_time).is_allowed
             /\ call'.kind = "get_remaining"
                   => call'.remaining_per_minute
                         = get_remaining(Alone(k), k, current_time).remaining_per_minute]_vars

C28_Witness ==
    /\ call.kind = "check_rate_limit" /\ call.is_allowed
    /\ \E j \in api_keys \ {call.api_key} :
          AcceptedWithin(j, minute) = rate_limit_per_minute

----------------------------------------------------------------------------
(* Claims about /detect and /health as served, checked under SpecApi *)

\* a /detect request has arrived and has not been returned from
InFlight == pc \in {"preprocess", "extract", "classify", "done"}

\* the request was answered before the handler ran any pipeline step
AnsweredUnprocessed(status) ==
    pc = "done" /\ response.status = status /\ stages = <<>> /\ features = <<>>

\* C24: a /detect request is processed only when its key belongs to the
\* configured key set: without a key it is answered 401, with an unknown key
\* 403, and in neither case is a pipeline stage run.
C24_OnlyConfiguredKeysProcessed ==
    InFlight
        => /\ request.api_key = "" => AnsweredUnprocessed(401)
           /\ (request.api_key # "" /\ request.api_key \notin api_keys)
                 => AnsweredUnprocessed(403)
           /\ (pc # "done" \/ stages # <<>> \/ response.status = 200)
                 => request.api_key \in api_keys

C24_Witness ==
    /\ AnsweredUnprocessed(403) /\ request.api_key = "invalid_key"
    /\ request.language = "english" /\ request.audio_base64 = RecordingEncoded

\* the string is base64 as RFC 4648 defines it, and the bytes it encodes
StrictBase64(v) ==
    v.stray = 0 /\ (v.data % 4) # 1 /\ v.pad = (4 - (v.data % 4)) % 4
DecodedBytes(v) == 3 * (v.data \div 4) + Max((v.data % 4) - 1, 0)

\* the request passed verify_api_key
Authenticated == InFlight /\ response.status \notin {401, 403, 429}

\* C25: a /detect request (of an accepted key) whose language is not one of
\* the five supported ones, or whose audio_base64 is not valid base64
\* decoding to at least 100 bytes, is answered 422 and never reaches
\* preprocess; one with a supported language and the valid 2-second recording
\* succeeds, for each of the five languages.
C25_InvalidBodiesRejected ==
    Authenticated
        => /\ (\/ request.language \notin SUPPORTED_LANGUAGES
               \/ ~StrictBase64(request.audio_base64)
               \/ DecodedBytes(request.audio_base64) < min_decoded_bytes)
                 => AnsweredUnprocessed(422)
           /\ (/\ pc = "done"
               /\ request.language \in SUPPORTED_LANGUAGES
               /\ request.audio_base64 = RecordingEncoded
               /\ request.n = Recording.n)
                 => response.status = 200

\* a step that serves GET /health
ServesHealth == pc = "idle" /\ pc' = "idle" /\ current_time' = current_time

\* C26: GET /health can be served in every state of the running server and
\* answers 200 'healthy' whatever key is or is not sent, whichever classifier
\* is loaded and whatever the rate limiter holds; serving it changes neither
\* the rate limiter nor the classifier.
C26_HealthOpenAndPure ==
    /\ [](pc = "idle" => ENABLED health_check)
    /\ [][ServesHealth
             => /\ response'.status = 200 /\ response'.detail = "healthy"
                /\ UNCHANGED <<rate_limiter, accepted, classifier>>]_vars

C26_Witness ==
    /\ pc = "idle" /\ response.status = 200 /\ response.detail = "healthy"
    /\ response.model_loaded
    /\ \E k \in api_keys : AcceptedWithin(k, minute) = rate_limit_per_minute

\* C29: verify_api_key answers a missing key 401, an unknown key 403 and only
\* then consults the rate limiter: the rate limiter holds records for
\* configured keys only, a request with a missing or unknown key leaves it as
\* it was, and a request answered 429 carries a configured key and runs no
\* pipeline stage.
C29_LimiterOnlyForValidKeys ==
    /\ [](/\ DOMAIN rate_limiter \subseteq api_keys
          /\ DOMAIN accepted \subseteq api_keys
          /\ (InFlight /\ response.status = 429)
                => AnsweredUnprocessed(429) /\ request.api_key \in api_keys)
    /\ [][(pc = "idle" /\ pc' # "idle" /\ request'.api_key \notin api_keys)
             => /\ response'.status = IF request'.api_key = "" THEN 401 ELSE 403
                /\ UNCHANGED <<rate_limiter, accepted>>]_vars

C29_Witness ==
    /\ AnsweredUnprocessed(429)
    /\ AcceptedWithin(request.api_key, minute) = rate_limit_per_minute
    /\ \E k \in api_keys : k \notin DOMAIN rate_limiter

----------------------------------------------------------------------------
(* The language argument, checked under SpecPredict *)

\* what a predict call gave: its label and confidence, or that it raised
ResultOf(c) == IF c.raised THEN <<"raised", 0>> ELSE <<c.prediction, c.confidence>>

\* the results predict may give on the classifier and the vector held, the
\* language argument being l
PossibleResults(l) ==
    IF classifier.is_mock
    THEN {ResultOf(MockPredict(features, l, noise)) : noise \in random_uniform}
    ELSE {ResultOf(EnsemblePredict(classifier, features, l))}

\* C30: the language argument has no influence on classification: for either
\* classifier and any vector, the set of results predict may give is the same
\* for every supported language as for the language of the call, and what
\* the call gave is among them.
C30_LanguageHasNoInfluence ==
    LET own == PossibleResults(request.language)
    IN /\ \A l \in SUPPORTED_LANGUAGES : PossibleResults(l) = own
       /\ call.kind # "none" => ResultOf(call) \in own

C30_Witness ==
    /\ Returned("mock") /\ call.language = "tamil" /\ call.prediction = AILabel
    /\ ResultOf(call) \in PossibleResults("hindi")

====
